---- MODULE Spec2Model ----
(***************************************************************************)
(* World Info Suite (src/index.js): the bulk entry editor session.         *)
(*                                                                         *)
(* The click handler of the bulk-edit button (initBulkEditor, lines        *)
(* 622-1068) and the four button handlers of its dialog are asynchronous   *)
(* functions.  Each one is modelled as a process whose position is the     *)
(* await it is suspended at; one action is the code between two awaits.    *)
(* The host (SillyTavern: world-info.js, popup.js) is outside src/ and is  *)
(* modelled from the interface of spec.md section 6:                       *)
(*   - loadWorldInfo returns the book as currently persisted, from the     *)
(*     host's cache of the open book: no other event runs before the load  *)
(*     resolves;                                                           *)
(*   - saveWorldInfo replaces the persisted book;                          *)
(*   - createWorldInfoEntry adds an entry under the first free uid;        *)
(*   - deleteWorldInfoEntry (silent) removes the uid if present;           *)
(*   - moveWorldInfoEntry copies the entry to the destination and, with    *)
(*     deleteOriginal, removes it from the source; it returns false when   *)
(*     the entry is missing or the host fails;                             *)
(*   - popups are modal: only the topmost open popup takes input, and the  *)
(*     main dialog closes only when onClosing (okToClose) allows it.  The  *)
(*     main dialog stays in the document until the promise of show() is    *)
(*     resumed, so its checkboxes and form can still be operated between   *)
(*     complete...() and the resumption at line 1013.                      *)
(* One instance of each button handler is in flight at a time.             *)
(***************************************************************************)
EXTENDS Integers, Sequences, FiniteSets, TLC

\* Bounds of the model.
MaxEdits == 2
MaxExternal == 1

SourceName == "A"
DestName == "B"

\* ---------------------------------------------------------------- entries

NoFilter == {}

NewEntry ==
  [content |-> "", key |-> <<>>, constant |-> FALSE, vectorized |-> FALSE,
   disable |-> FALSE, characterFilter |-> NoFilter]

InitialBook ==
  (0 :> [content |-> "a", key |-> <<"k0">>, constant |-> FALSE, vectorized |-> FALSE,
         disable |-> FALSE, characterFilter |-> NoFilter])
  @@
  (1 :> [content |-> "b", key |-> <<"k1">>, constant |-> TRUE, vectorized |-> FALSE,
         disable |-> TRUE,
         characterFilter |-> {[isExclude |-> FALSE, names |-> <<"n0">>, tags |-> <<>>]}])

EmptyBook == [u \in {} |-> NewEntry]

Has(book, uid) == uid \in DOMAIN book

Without(book, uid) == [u \in (DOMAIN book) \ {uid} |-> book[u]]

With(book, uid, e) == [u \in (DOMAIN book) \cup {uid} |-> IF u = uid THEN e ELSE book[u]]

RECURSIVE FreeUidFrom(_, _)
FreeUidFrom(book, uid) == IF Has(book, uid) THEN FreeUidFrom(book, uid + 1) ELSE uid

\* createWorldInfoEntry: the uid the new entry gets.
FreeUid(book) == FreeUidFrom(book, 0)

\* The uids of a book in the order Object.values() lists them (ascending).
RECURSIVE SortedUids(_)
SortedUids(S) ==
  IF S = {} THEN <<>>
  ELSE LET m == CHOOSE x \in S : \A y \in S : x <= y
       IN <<m>> \o SortedUids(S \ {m})

Includes(list, x) == \E i \in 1..Len(list) : list[i] = x

\* ---------------------------------------------------------- change tracker

\* The (key, input) pairs hookInput is called with, in call order, for the fields
\* an entry has here: the loop over newWorldInfoEntryDefinition (key, content), then
\* the manual hooks of lines 722-729.
Hooks ==
  << [key |-> "key", input |-> "key"],
     [key |-> "content", input |-> "content"],
     [key |-> "entryStateSelector", input |-> "entryStateSelector"],
     [key |-> "entryKillSwitch", input |-> "entryKillSwitch"],
     [key |-> "key", input |-> "key"],
     [key |-> "characterFilter", input |-> "characterFilter"],
     [key |-> "characterFilter", input |-> "character_exclusion"] >>

IndexOf(list, x) == CHOOSE i \in 1..Len(list) : list[i] = x /\ \A j \in 1..(i - 1) : list[j] # x

\* addChange without the includes test.
addChangeAlways(list, key) == Append(list, key)

addChange(list, key) == IF ~Includes(list, key) THEN Append(list, key) ELSE list

removeChange(list, key) ==
  IF Includes(list, key)
  THEN LET i == IndexOf(list, key)
       IN SubSeq(list, 1, i - 1) \o SubSeq(list, i + 1, Len(list))
  ELSE list

\* The listeners of 'input change select2:select select2:unselect' on one input,
\* run in registration order from hook number h on.
RECURSIVE InputListeners(_, _, _)
InputListeners(list, input, h) ==
  IF h > Len(Hooks) THEN list
  ELSE IF Hooks[h].input = input /\ Hooks[h].key # "entryKillSwitch"
       THEN InputListeners(addChange(list, Hooks[h].key), input, h + 1)
       ELSE InputListeners(list, input, h + 1)

\* ClickListeners whose control-click does not stop the listeners that follow.
RECURSIVE ClickListenersPropagating(_, _, _, _)
ClickListenersPropagating(list, input, ctrlKey, h) ==
  IF h > Len(Hooks) THEN list
  ELSE IF Hooks[h].input # input THEN ClickListenersPropagating(list, input, ctrlKey, h + 1)
  ELSE IF ctrlKey
       THEN ClickListenersPropagating(
              IF Includes(list, Hooks[h].key) THEN removeChange(list, Hooks[h].key)
              ELSE addChange(list, Hooks[h].key), input, ctrlKey, h + 1)
  ELSE IF Hooks[h].key = "entryKillSwitch"
       THEN ClickListenersPropagating(addChange(list, Hooks[h].key), input, ctrlKey, h + 1)
       ELSE ClickListenersPropagating(list, input, ctrlKey, h + 1)

\* The capturing click listeners on one input, in registration order from hook
\* number h on; a control-click stops at the first listener
\* (stopImmediatePropagation).
RECURSIVE ClickListeners(_, _, _, _)
ClickListeners(list, input, ctrlKey, h) ==
  IF h > Len(Hooks) THEN list
  ELSE IF Hooks[h].input # input THEN ClickListeners(list, input, ctrlKey, h + 1)
  ELSE IF ctrlKey
       THEN IF Includes(list, Hooks[h].key)
            THEN removeChange(list, Hooks[h].key)
            ELSE addChange(list, Hooks[h].key)
  ELSE IF Hooks[h].key = "entryKillSwitch"
       THEN ClickListeners(addChange(list, Hooks[h].key), input, ctrlKey, h + 1)
       ELSE ClickListeners(list, input, ctrlKey, h + 1)

\* The values the host's form can write into the template entry through one input.
FormValues(input) ==
  CASE input = "content" -> {"X"}
    [] input = "key" -> {<<"kx">>}
    [] input = "entryStateSelector" -> {"vectorized"}
    [] input = "characterFilter" -> {{[isExclude |-> FALSE, names |-> <<"n1">>, tags |-> <<>>]}}
    [] input = "character_exclusion" -> {{[isExclude |-> TRUE, names |-> <<>>, tags |-> <<>>]}}
    [] OTHER -> {}

\* The host's form handler: the template entry after `input` takes value v.
FormWrite(e, input, v) ==
  CASE input = "content" -> [e EXCEPT !.content = v]
    [] input = "key" -> [e EXCEPT !.key = v]
    [] input = "entryStateSelector" ->
         [e EXCEPT !.constant = (v = "constant"), !.vectorized = (v = "vectorized")]
    [] input = "entryKillSwitch" -> [e EXCEPT !.disable = ~e.disable]
    [] OTHER -> [e EXCEPT !.characterFilter = v]

\* ------------------------------------------------------------ apply engine

\* ApplyKey whose entryStateSelector case copies constant only.
ApplyKeyConstantOnly(e, newEntry, key) ==
  CASE key = "entryStateSelector" -> [e EXCEPT !.constant = newEntry.constant]
    [] key = "entryKillSwitch" -> [e EXCEPT !.disable = newEntry.disable]
    [] key = "characterFilter" ->
         IF newEntry.characterFilter # NoFilter
         THEN [e EXCEPT !.characterFilter = newEntry.characterFilter]
         ELSE [e EXCEPT !.characterFilter = NoFilter]
    [] OTHER -> [e EXCEPT ![key] = newEntry[key]]

\* One case of the switch at lines 1028-1050.
ApplyKey(e, newEntry, key) ==
  CASE key = "entryStateSelector" ->
         [e EXCEPT !.constant = newEntry.constant, !.vectorized = newEntry.vectorized]
    [] key = "entryKillSwitch" -> [e EXCEPT !.disable = newEntry.disable]
    [] key = "characterFilter" ->
         IF newEntry.characterFilter # NoFilter
         THEN [e EXCEPT !.characterFilter = newEntry.characterFilter]
         ELSE [e EXCEPT !.characterFilter = NoFilter]
    [] OTHER -> [e EXCEPT ![key] = newEntry[key]]

\* for (const key of changeList) { switch ... }
RECURSIVE ReplayKeys(_, _, _)
ReplayKeys(e, newEntry, list) ==
  IF list = <<>> THEN e
  ELSE ReplayKeys(ApplyKey(e, newEntry, Head(list)), newEntry, Tail(list))

\* The book of the session's start put in the place of the loaded one: its
\* entries as they were, with whatever the loaded book holds besides them.
StartCopy(book) ==
  [u \in DOMAIN InitialBook \cup DOMAIN book |->
     IF u \in DOMAIN InitialBook THEN InitialBook[u] ELSE book[u]]

RECURSIVE StartCopyLoop(_, _, _, _, _)
StartCopyLoop(book, uids, del, newEntry, list) ==
  IF uids = <<>> THEN book
  ELSE LET uid == Head(uids)
       IN IF del
          THEN StartCopyLoop(Without(book, uid), Tail(uids), del, newEntry, list)
          ELSE IF ~Has(book, uid)
               THEN StartCopyLoop(book, Tail(uids), del, newEntry, list)
               ELSE StartCopyLoop(With(book, uid, ReplayKeys(book[uid], newEntry, list)),
                                  Tail(uids), del, newEntry, list)

\* The loop run over the copy of the session's start instead of the loaded book.
FinalLoopOnStartCopy(book, uids, del, newEntry, list) ==
  StartCopyLoop(StartCopy(book), uids, del, newEntry, list)

\* The loop with the guard of line 1026 lost: a missing target is written anew.
RECURSIVE FinalLoopCreatingMissing(_, _, _, _, _)
FinalLoopCreatingMissing(book, uids, del, newEntry, list) ==
  IF uids = <<>> THEN book
  ELSE LET uid == Head(uids)
       IN IF del
          THEN FinalLoopCreatingMissing(Without(book, uid), Tail(uids), del, newEntry, list)
          ELSE FinalLoopCreatingMissing(
                 With(book, uid, ReplayKeys(IF Has(book, uid) THEN book[uid] ELSE newEntry,
                                            newEntry, list)),
                 Tail(uids), del, newEntry, list)

\* The loop at lines 1021-1053 over the selected uids.
RECURSIVE FinalLoop(_, _, _, _, _)
FinalLoop(book, uids, del, newEntry, list) ==
  IF uids = <<>> THEN book
  ELSE LET uid == Head(uids)
       IN IF del
          THEN FinalLoop(Without(book, uid), Tail(uids), del, newEntry, list)
          ELSE IF ~Has(book, uid)
               THEN FinalLoop(book, Tail(uids), del, newEntry, list)
               ELSE FinalLoop(With(book, uid, ReplayKeys(book[uid], newEntry, list)),
                              Tail(uids), del, newEntry, list)

Notice(msg, n) == [msg |-> msg, n |-> n]

\* The result a sub-popup was closed with.
Answer(popup, result) == [popup |-> popup, result |-> result]

NoAnswer == Answer("none", "none")

\* A host call: its name and the uid it is about (-1: none).
Call(op, uid) == [op |-> op, uid |-> uid]

\* ------------------------------------------------- classifier / sorter values

\* A JavaScript value that is a number, or is not one (undefined, null, a string).
Num(v) == [t |-> "number", v |-> v]

NotNum == [t |-> "undefined", v |-> 0]

\* A property that is absent (undefined) on a record or in the host's context.
Missing == "<undefined>"

\* Numbers as the comparators see them: a finite value, -Infinity (w = -1) or
\* Number.MAX_SAFE_INTEGER (w = 1), which is above every order of the model.
Fin(v) == [w |-> 0, v |-> v]

NegInfinity == [w |-> -1, v |-> 0]

MaxSafeInteger == [w |-> 1, v |-> 0]

Sign(n) == IF n < 0 THEN -1 ELSE IF n > 0 THEN 1 ELSE 0

\* The sign of x - y.
MinusSign(x, y) == IF x.w # y.w THEN Sign(x.w - y.w) ELSE Sign(x.v - y.v)

\* The strings of the model in the order localeCompare gives them.
Collation == << "", "a", "b", "Entry #1", "Entry #2", "Entry #3", "Entry #4" >>

CollationRank(s) == CHOOSE i \in 1..Len(Collation) : Collation[i] = s

\* String(x || '').localeCompare(String(y || ''))
LocaleCompare(x, y) ==
  LET sx == IF x = Missing THEN "" ELSE x
      sy == IF y = Missing THEN "" ELSE y
  IN Sign(CollationRank(sx) - CollationRank(sy))

\* Lines 141-145.
ENTRY_SOURCE_TYPE == [ASSISTANT |-> 3, USER |-> 2, SYSTEM |-> 1]

\* Lines 148-158.  Roles are 0, 1, 2 (written "#0", "#1", "#2"), strings, or absent.
getRoleString(roleValue) ==
  CASE roleValue = "#0" -> "system"
    [] roleValue = "#1" -> "user"
    [] roleValue = "#2" -> "assistant"
    [] roleValue = Missing -> "assistant"
    [] roleValue \in {"ai", "AI "} -> "assistant"
    [] roleValue = " User" -> "user"
    [] OTHER -> roleValue

\* Lines 167-173.
getEntrySourceType(entry) ==
  LET role == getRoleString(entry.role)
  IN IF role = "assistant" THEN ENTRY_SOURCE_TYPE.ASSISTANT
     ELSE IF role = "user" THEN ENTRY_SOURCE_TYPE.USER
     ELSE IF role = "system" THEN ENTRY_SOURCE_TYPE.SYSTEM
     ELSE ENTRY_SOURCE_TYPE.ASSISTANT

\* Lines 125-130.
WI_SOURCE_KEYS ==
  [GLOBAL |-> "global", CHARACTER_PRIMARY |-> "characterPrimary",
   CHARACTER_ADDITIONAL |-> "characterAdditional", CHAT |-> "chat"]

Null == "null"

\* Source resolution with the global books consulted first.
getWISourceKeyGlobalFirst(entry, ctx) ==
  LET worldName == entry.world
  IN IF worldName \in ctx.selected
     THEN WI_SOURCE_KEYS.GLOBAL
     ELSE IF ctx.chatLoreName # Missing /\ worldName = ctx.chatLoreName
     THEN WI_SOURCE_KEYS.CHAT
     ELSE IF ctx.hasCharacter /\ ctx.primaryLorebook # Missing
             /\ worldName = ctx.primaryLorebook
     THEN WI_SOURCE_KEYS.CHARACTER_PRIMARY
     ELSE IF ctx.hasCharacter /\ ctx.hasExtra /\ worldName \in ctx.extraBooks
     THEN WI_SOURCE_KEYS.CHARACTER_ADDITIONAL
     ELSE Null

\* Lines 175-202.  The host context ctx: chatLoreName (chat_metadata[METADATA_KEY]),
\* hasCharacter (characters[this_chid]), primaryLorebook, hasExtra and extraBooks
\* (the charLore record of the character's file), selected (selected_world_info).
getWISourceKey(entry, ctx) ==
  LET worldName == entry.world
  IN IF ctx.chatLoreName # Missing /\ worldName = ctx.chatLoreName
     THEN WI_SOURCE_KEYS.CHAT
     ELSE IF ctx.hasCharacter /\ ctx.primaryLorebook # Missing
             /\ worldName = ctx.primaryLorebook
     THEN WI_SOURCE_KEYS.CHARACTER_PRIMARY
     ELSE IF ctx.hasCharacter /\ ctx.hasExtra /\ worldName \in ctx.extraBooks
     THEN WI_SOURCE_KEYS.CHARACTER_ADDITIONAL
     ELSE IF worldName \in ctx.selected
     THEN WI_SOURCE_KEYS.GLOBAL
     ELSE Null

\* The named positions in their numeric order.
PositionNumericOrder == [position \in 0..7 |-> position]

\* Lines 112-114.
POSITION_SORT_ORDER ==
  (0 :> 0) @@ (1 :> 1) @@ (5 :> 2) @@ (6 :> 3) @@ (2 :> 4) @@ (3 :> 5) @@ (4 :> 6) @@ (7 :> 7)

\* Lines 98-110: the positions getPositionInfo() names.
KnownPositions == 0..7

\* Lines 262-265.
getPositionSortIndex(position) ==
  IF position \in DOMAIN POSITION_SORT_ORDER THEN POSITION_SORT_ORDER[position] ELSE 999

\* The at-depth comparison with the source type left out.
compareDepthThenOrder(a, b) ==
  LET depthA == IF a.depth.t = "number" THEN Fin(a.depth.v) ELSE NegInfinity
      depthB == IF b.depth.t = "number" THEN Fin(b.depth.v) ELSE NegInfinity
  IN IF depthA # depthB THEN MinusSign(depthB, depthA)
     ELSE IF a.worldOrder # b.worldOrder THEN MinusSign(a.worldOrder, b.worldOrder)
     ELSE LocaleCompare(a.entryName, b.entryName)

\* Lines 267-281, the sign of the result.  depth is a number or null; sourceType
\* and worldOrder are always set on a processed entry.
compareDepthEntries(a, b) ==
  LET depthA == IF a.depth.t = "number" THEN Fin(a.depth.v) ELSE NegInfinity
      depthB == IF b.depth.t = "number" THEN Fin(b.depth.v) ELSE NegInfinity
  IN IF depthA # depthB THEN MinusSign(depthB, depthA)
     ELSE IF a.sourceType # b.sourceType THEN Sign(b.sourceType - a.sourceType)
     ELSE IF a.worldOrder # b.worldOrder THEN MinusSign(a.worldOrder, b.worldOrder)
     ELSE LocaleCompare(a.entryName, b.entryName)

\* The comparison of the other groups with the book name left out.
compareOrderThenLabel(a, b) ==
  IF a.worldOrder # b.worldOrder THEN MinusSign(a.worldOrder, b.worldOrder)
  ELSE LocaleCompare(a.entryName, b.entryName)

\* Lines 283-291, the sign of the result.
compareOrderEntries(a, b) ==
  IF a.worldOrder # b.worldOrder THEN MinusSign(a.worldOrder, b.worldOrder)
  ELSE IF LocaleCompare(a.worldName, b.worldName) # 0
       THEN LocaleCompare(a.worldName, b.worldName)
       ELSE LocaleCompare(a.entryName, b.entryName)

\* The comparator a sort call is given: of the entries of the at-depth group
\* (line 350), of the entries of another group (line 352), of the groups (line 357).
Compare(by, a, b) ==
  CASE by = "depth" -> compareDepthEntries(a, b)
    [] by = "order" -> compareOrderEntries(a, b)
    [] OTHER -> Sign(getPositionSortIndex(a.position) - getPositionSortIndex(b.position))

\* Array.prototype.sort: stable, x goes after the elements that do not compare
\* greater than it.
RECURSIVE InsertSorted(_, _, _)
InsertSorted(list, x, by) ==
  IF list = <<>> THEN << x >>
  ELSE IF Compare(by, list[Len(list)], x) > 0
       THEN Append(InsertSorted(SubSeq(list, 1, Len(list) - 1), x, by), list[Len(list)])
       ELSE Append(list, x)

RECURSIVE SortFrom(_, _, _, _)
SortFrom(list, i, by, sorted) ==
  IF i > Len(list) THEN sorted ELSE SortFrom(list, i + 1, by, InsertSorted(sorted, list[i], by))

Sort(list, by) == SortFrom(list, 1, by, <<>>)

\* Lines 222-260: the order of a book, from the cache or from the host's registry
\* of worlds (a function from book names to their order); [order, cache].
getWorldOrderByName(worldName, registry, cache) ==
  IF worldName \in {Missing, ""} THEN [order |-> MaxSafeInteger, cache |-> cache]
  ELSE IF worldName \in DOMAIN cache THEN [order |-> cache[worldName], cache |-> cache]
  ELSE LET order == IF worldName \in DOMAIN registry THEN Fin(registry[worldName])
                    ELSE MaxSafeInteger
       IN [order |-> order, cache |-> (worldName :> order) @@ cache]

\* The position of a record when only the named positions are kept apart.
PositionOfNamedOnly(entryRaw) ==
  IF entryRaw.position.t = "number" /\ entryRaw.position.v \in KnownPositions
  THEN entryRaw.position.v ELSE 0

\* Line 301: the position a record is grouped under.
PositionOf(entryRaw) == IF entryRaw.position.t = "number" THEN entryRaw.position.v ELSE 0

\* Lines 318-321, where order is what getWorldOrderByName would return.
ResolveWorldOrder(entryRaw, order) ==
  IF entryRaw.worldOrder.t = "number" THEN Fin(entryRaw.worldOrder.v)
  ELSE IF entryRaw.order.t = "number" THEN Fin(entryRaw.order.v)
  ELSE order

\* Line 326: entryRaw.comment || `${i18n('entryLabel')} #${entryRaw.uid}`
EntryName(entryRaw) ==
  IF entryRaw.comment \in {Missing, ""} THEN "Entry #" \o ToString(entryRaw.uid)
  ELSE entryRaw.comment

\* Lines 323-344: the fields of a processed entry that sorting and grouping use.
ProcessedEntry(entryRaw, ctx, worldOrder) ==
  [uid |-> entryRaw.uid,
   worldName |-> entryRaw.world,
   entryName |-> EntryName(entryRaw),
   sourceKey |-> getWISourceKey(entryRaw, ctx),
   depth |-> entryRaw.depth,
   sourceType |-> getEntrySourceType(entryRaw),
   worldOrder |-> worldOrder]

\* Lines 302-312: the group of a position, created at its first record.
NewGroup(position) ==
  [position |-> position,
   positionName |-> IF position \in KnownPositions THEN "position" ELSE "positionUnknown",
   entries |-> <<>>]

GroupIndex(byPosition, position) ==
  IF \E i \in 1..Len(byPosition) : byPosition[i].position = position
  THEN CHOOSE i \in 1..Len(byPosition) : byPosition[i].position = position
  ELSE 0

\* Line 299: a record is processed when it is a non-null object.
IsRecord(entryRaw) == entryRaw.obj

\* Lines 298-346: one round of the forEach; [byPosition, cache].
AddRecord(acc, entryRaw, ctx, registry) ==
  IF ~IsRecord(entryRaw) THEN acc
  ELSE LET position == PositionOf(entryRaw)
           needsLookup == entryRaw.worldOrder.t # "number" /\ entryRaw.order.t # "number"
           looked == IF needsLookup THEN getWorldOrderByName(entryRaw.world, registry, acc.cache)
                     ELSE [order |-> MaxSafeInteger, cache |-> acc.cache]
           processedEntry == ProcessedEntry(entryRaw, ctx, ResolveWorldOrder(entryRaw, looked.order))
           i == GroupIndex(acc.byPosition, position)
           withGroup == IF i = 0 THEN Append(acc.byPosition, NewGroup(position))
                        ELSE acc.byPosition
           k == IF i = 0 THEN Len(withGroup) ELSE i
       IN [byPosition |-> [withGroup EXCEPT ![k].entries = Append(@, processedEntry)],
           cache |-> looked.cache]

RECURSIVE CollectFrom(_, _, _, _, _)
CollectFrom(activatedEntries, i, acc, ctx, registry) ==
  IF i > Len(activatedEntries) THEN acc
  ELSE CollectFrom(activatedEntries, i + 1,
                   AddRecord(acc, activatedEntries[i], ctx, registry), ctx, registry)

\* Lines 348-354: each group's entries sorted by the comparator of its position.
SortEntries(posGroup) ==
  [posGroup EXCEPT !.entries = Sort(@, IF posGroup.position = 4 THEN "depth" ELSE "order")]

\* Lines 293-360: [groups, cache], the value returned and the cache left behind.
processWorldInfoData(activatedEntries, ctx, registry, cache) ==
  LET acc == CollectFrom(activatedEntries, 1, [byPosition |-> <<>>, cache |-> cache],
                         ctx, registry)
      sorted == [i \in 1..Len(acc.byPosition) |-> SortEntries(acc.byPosition[i])]
      nonEmpty == SelectSeq(sorted, LAMBDA g : Len(g.entries) > 0)
  IN [groups |-> Sort(nonEmpty, "group"), cache |-> acc.cache]

\* ------------------------------------------------------------------- state

VARIABLES
  persisted,      \* host store: book name -> (uid -> entry)
  worldNames,     \* host: world_names
  pc,             \* position of the bulk-edit click handler (lines 622-1068)
  formRendered,   \* host: the template's form is in the document
  entryUid,       \* entry.uid, the template entry
  second,         \* a second run of the click handler: its position and its entry.uid
  selectable,     \* the checkboxes built at lines 792-807, in document order
  checked,        \* the uids whose checkbox is checked
  changeList,     \* line 650
  okToClose,      \* line 821
  deleteTargets,  \* line 822
  outcome,        \* result the main dialog was completed with ("none": still open)
  popups,         \* the open sub-popups, topmost last
  okPc, okSel,    \* OK handler (lines 840-891): position, its selectedUids
  okSummary,      \* the keys listed in the confirmation it built (lines 857-879)
  mvPc, mvSel, mvOptions, mvButton, mvTarget, deleteOriginal, mvIdx, successCount, errorCount,
                  \* Move/Copy handler (lines 894-970): position, its selectedUids, the
                  \* options of the destination select, the button the operator pressed
  moveLog,        \* the moveWorldInfoEntry calls of the batch, with their results
  delPc, delSel,  \* Delete handler (lines 973-992)
  finSel,         \* selectedUids of the final phase (line 1017)
  toast,          \* the toastr notices of the last step
  calls,          \* the host calls of the last step, in order
  answer,         \* the sub-popup closed in the last step and its result, or NoAnswer
  edits,          \* form interactions so far, counted in the sessions of Spec
  extOps,         \* number of changes made to the book outside the session
  saves,          \* history: saveWorldInfo calls made by the click handler
  confirmedApply, \* history: the operator confirmed an apply summary
  confirmedDelete,\* history: the selection whose deletion the operator confirmed
  context,        \* host: chat-bound book, active character and its books, global books
  registry,       \* host: the order of the worlds the registry lists
  activatedEntries, \* the records of the activation being classified
  groups,         \* what processWorldInfoData returned for them
  worldOrderCache,\* line 220
  resolved,       \* the book getWISourceKey was asked about and its answer
  viewPc,         \* "ready": nothing computed yet; "classified", "resolved": result held
  lastActivatedWorldInfo, \* line 416
  chat,           \* host: the messages of the chat, each with extra.worldInfoViewer
  settings,       \* extension_settings.worldInfoSuite: the viewer's two settings
  feed            \* history: what the latest activation event classifies to,
                  \* whether a received-message event followed it (1) or not (0),
                  \* and the attachments the last handler's cleanup removed

vars ==
  << persisted, worldNames, pc, formRendered, entryUid, selectable, checked,
     changeList, okToClose, deleteTargets, outcome, popups, okPc, okSel, okSummary,
     mvPc, mvSel, mvOptions, mvButton, mvTarget, deleteOriginal, mvIdx, successCount,
     errorCount, moveLog, delPc, delSel, finSel, toast, calls, answer, edits, extOps,
     saves, confirmedApply, confirmedDelete, context, registry, activatedEntries, groups,
     worldOrderCache, resolved, viewPc, lastActivatedWorldInfo, chat, settings, feed,
     second >>

hostVars == << persisted, worldNames, formRendered >>
mainVars == << pc, entryUid, selectable, finSel >>
formVars == << checked, changeList, edits >>
dlgVars == << okToClose, deleteTargets, outcome >>
okVars == << okPc, okSel, okSummary >>
mvVars == << mvPc, mvSel, mvOptions, mvButton, mvTarget, deleteOriginal, mvIdx, successCount,
            errorCount, moveLog >>
delVars == << delPc, delSel >>
histVars == << confirmedApply, confirmedDelete >>
viewerVars == << lastActivatedWorldInfo, chat, settings, feed >>
viewVars ==
  << context, registry, activatedEntries, groups, worldOrderCache, resolved, viewPc,
     viewerVars >>

\* A value that is null, or the groups of a classified activation.
NullSlot == [isNull |-> TRUE, groups |-> <<>>]

Held(g) == [isNull |-> FALSE, groups |-> g]

\* Lines 54-59.
defaultSettings == [enableTriggeredViewer |-> TRUE, viewerCacheLimit |-> 10]

\* The click handler has not been entered a second time.
NoSecondRun == [pc |-> "Idle", entryUid |-> 0]

\* The viewer after the module is loaded, in a chat without messages.
ViewerStart ==
  /\ lastActivatedWorldInfo = NullSlot
  /\ chat = <<>>
  /\ settings = defaultSettings
  /\ feed = [latest |-> NullSlot, received |-> 0, evicted |-> 0]

\* No context, no activation: the viewer's state in the bulk editor's sessions.
NoContext ==
  [chatLoreName |-> Missing, hasCharacter |-> FALSE, primaryLorebook |-> Missing,
   hasExtra |-> FALSE, extraBooks |-> {}, selected |-> {}]

NoResult == [world |-> Missing, key |-> Null]

ViewStart ==
  /\ context = NoContext
  /\ registry = <<>>
  /\ activatedEntries = <<>>
  /\ groups = <<>>
  /\ worldOrderCache = <<>>
  /\ resolved = NoResult
  /\ viewPc = "ready"
  /\ ViewerStart

\* The bulk editor before the first click.
BulkStart ==
  /\ persisted = [b \in {SourceName, DestName} |-> IF b = SourceName THEN InitialBook ELSE EmptyBook]
  /\ pc = "Idle"
  /\ formRendered = FALSE
  /\ entryUid = 0
  /\ second = NoSecondRun
  /\ selectable = <<>>
  /\ checked = {}
  /\ changeList = <<>>
  /\ okToClose = FALSE
  /\ deleteTargets = FALSE
  /\ outcome = "none"
  /\ popups = <<>>
  /\ okPc = "idle" /\ okSel = <<>> /\ okSummary = <<>>
  /\ mvPc = "idle" /\ mvSel = <<>> /\ mvOptions = {} /\ mvButton = "" /\ mvTarget = ""
  /\ deleteOriginal = FALSE
  /\ mvIdx = 0 /\ successCount = 0 /\ errorCount = 0 /\ moveLog = <<>>
  /\ delPc = "idle" /\ delSel = <<>>
  /\ finSel = <<>>
  /\ toast = <<>>
  /\ calls = <<>>
  /\ answer = NoAnswer
  /\ edits = 0
  /\ extOps = 0
  /\ saves = 0
  /\ confirmedApply = FALSE
  /\ confirmedDelete = {}

Init ==
  /\ BulkStart
  /\ worldNames \in {{SourceName}, {SourceName, DestName}}
  /\ ViewStart

\* ------------------------------------------- the bulk-edit click handler

\* The list with the filter of line 792 lost: the template's own entry, which
\* createWorldInfoEntry has put into data, is listed with the others.
ListedUidsUnfiltered(data, uid) == SortedUids(DOMAIN data \cup {uid})

\* Line 792: the entries offered for selection, in the order of Object.values:
\* those of the loaded book but the template.
ListedUids(data, uid) == SortedUids(DOMAIN data \ {uid})

\* Lines 622-640: the guards, then load, create the template, save.
Trigger ==
  /\ pc = "Idle"
  /\ \E enableBulkEditor \in BOOLEAN, worldSelected \in BOOLEAN :
       IF ~enableBulkEditor
       THEN /\ toast' = <<Notice("Bulk Editor is disabled", 0)>>
            /\ calls' = <<>>
            /\ UNCHANGED << hostVars, mainVars, saves >>
       ELSE IF ~worldSelected
       THEN /\ toast' = <<Notice("bulkEditNoWorldSelected", 0)>>
            /\ calls' = <<>>
            /\ UNCHANGED << hostVars, mainVars, saves >>
       ELSE LET data == persisted[SourceName]
                uid == FreeUid(data)
            IN /\ persisted' = [persisted EXCEPT ![SourceName] = With(data, uid, NewEntry)]
               /\ entryUid' = uid
               /\ selectable' = ListedUids(data, uid)
               /\ pc' = "TemplateCreated"
               /\ toast' = <<>>
               /\ calls' = << Call("loadWorldInfo", -1), Call("createWorldInfoEntry", uid),
                              Call("saveWorldInfo", -1) >>
               /\ saves' = saves + 1
               /\ UNCHANGED << worldNames, formRendered, finSel >>
  /\ answer' = NoAnswer
  /\ UNCHANGED << viewVars, second >>
  /\ UNCHANGED << formVars, dlgVars, popups, okVars, mvVars, delVars, extOps, histVars >>

\* Host: the editor renders the template's form after the change event.
FormRenders ==
  /\ pc = "TemplateCreated"
  /\ ~formRendered
  /\ formRendered' = TRUE
  /\ toast' = <<>> /\ calls' = <<>>
  /\ answer' = NoAnswer
  /\ UNCHANGED << viewVars, second >>
  /\ UNCHANGED << persisted, worldNames, mainVars, formVars, dlgVars, popups, okVars, mvVars,
                  delVars, extOps, saves, histVars >>

\* Lines 644-647: one round of the polling loop while the form is missing.
PollForm ==
  /\ pc = "TemplateCreated"
  /\ ~formRendered
  /\ toast' = <<>> /\ calls' = << Call("delay", -1) >>
  /\ answer' = NoAnswer
  /\ UNCHANGED << viewVars, second >>
  /\ UNCHANGED << hostVars, mainVars, formVars, dlgVars, popups, okVars, mvVars, delVars,
                  extOps, saves, histVars >>

\* Lines 648-837: hook the inputs, build the dialog, show it, await its promise.
HookForm ==
  /\ pc = "TemplateCreated"
  /\ formRendered
  /\ pc' = "AwaitingOperatorAction"
  /\ changeList' = <<>>
  /\ checked' = {}
  /\ okToClose' = FALSE
  /\ deleteTargets' = FALSE
  /\ outcome' = "none"
  /\ toast' = <<>> /\ calls' = <<>>
  /\ answer' = NoAnswer
  /\ UNCHANGED << viewVars, second >>
  /\ UNCHANGED << hostVars, entryUid, selectable, finSel, edits, popups, okVars, mvVars,
                  delVars, extOps, saves, histVars >>

\* const selectedUids = [...checkboxes:checked].map(cb => cb.value)
SelectedUids == SelectSeq(selectable, LAMBDA u : u \in checked)

\* DeleteTemplate without the delete call.
DeleteTemplateSkipped(book, uid) == book

\* Lines 1055 and 1063: await deleteWorldInfoEntry(book, entry.uid, { silent: true }).
DeleteTemplate(book, uid) == Without(book, uid)

\* A replay that sends a save after each deletion of a target.
DeleteCallsSavingEach(uids) ==
  [i \in 1..(2 * Len(uids)) |-> IF i % 2 = 1 THEN Call("deleteWorldInfoEntry", uids[(i + 1) \div 2])
                                             ELSE Call("saveWorldInfo", -1)]

\* deleteWorldInfoEntry calls of the loop at 1021-1024.
DeleteCalls(uids) == [i \in 1..Len(uids) |-> Call("deleteWorldInfoEntry", uids[i])]

\* Lines 1013-1056: the dialog's promise resolves affirmatively; read the selection,
\* load the book, replay or delete, delete the template, send the save.
FinalPhase ==
  /\ pc = "AwaitingOperatorAction"
  /\ outcome = "AFFIRMATIVE"
  /\ LET selectedUids == SelectedUids
         book == persisted[SourceName]
         newEntry == book[entryUid]
         after == FinalLoop(book, selectedUids, deleteTargets, newEntry, changeList)
     IN /\ finSel' = selectedUids
        /\ persisted' = [persisted EXCEPT ![SourceName] = DeleteTemplate(after, entryUid)]
        /\ calls' = << Call("loadWorldInfo", -1) >>
                    \o (IF deleteTargets THEN DeleteCalls(selectedUids) ELSE <<>>)
                    \o << Call("deleteWorldInfoEntry", entryUid), Call("saveWorldInfo", -1) >>
  /\ toast' = <<>>
  /\ pc' = "Applying"
  /\ saves' = saves + 1
  /\ answer' = NoAnswer
  /\ UNCHANGED << viewVars, second >>
  /\ UNCHANGED << worldNames, formRendered, entryUid, selectable, formVars, dlgVars,
                  popups, okVars, mvVars, delVars, extOps, histVars >>

\* Lines 1058-1059, 1067: the save has returned; report and end.
FinalNotice ==
  /\ pc = "Applying"
  /\ toast' = << Notice(IF deleteTargets THEN "bulkEditSuccess:deleted"
                                          ELSE "bulkEditSuccess:modified", Len(finSel)) >>
  /\ calls' = <<>>
  /\ pc' = "Done"
  /\ answer' = NoAnswer
  /\ UNCHANGED << viewVars, second >>
  /\ UNCHANGED << hostVars, entryUid, selectable, finSel, formVars, dlgVars,
                  popups, okVars, mvVars, delVars, extOps, saves, histVars >>

\* Lines 1013-1014, 1060-1064: the dialog's promise resolves negatively; load the
\* book, delete the template, send the save.
CancelCleanup ==
  /\ pc = "AwaitingOperatorAction"
  /\ outcome = "NEGATIVE"
  /\ persisted' = [persisted EXCEPT ![SourceName] = DeleteTemplate(persisted[SourceName], entryUid)]
  /\ calls' = << Call("loadWorldInfo", -1), Call("deleteWorldInfoEntry", entryUid),
                 Call("saveWorldInfo", -1) >>
  /\ toast' = <<>>
  /\ pc' = "Cancelling"
  /\ saves' = saves + 1
  /\ answer' = NoAnswer
  /\ UNCHANGED << viewVars, second >>
  /\ UNCHANGED << worldNames, formRendered, entryUid, selectable, finSel, formVars, dlgVars,
                  popups, okVars, mvVars, delVars, extOps, histVars >>

\* Line 1067: the save of the cancel branch has returned; the handler ends.
CancelDone ==
  /\ pc = "Cancelling"
  /\ toast' = <<>> /\ calls' = <<>>
  /\ pc' = "Done"
  /\ answer' = NoAnswer
  /\ UNCHANGED << viewVars, second >>
  /\ UNCHANGED << hostVars, entryUid, selectable, finSel, formVars, dlgVars,
                  popups, okVars, mvVars, delVars, extOps, saves, histVars >>

\* --------------------------------------------- the operator and the form

\* The main dialog is in the document and no sub-popup covers it.  It stays there,
\* completed or not, until the click handler resumes at line 1013.
DialogOperable == pc = "AwaitingOperatorAction" /\ popups = <<>>

\* The inputs the operator works with in a session of this model: the ones whose
\* value is changed, and the ones that are control-clicked.
SessionInputs == {"content", "entryStateSelector", "characterFilter"}

SessionCtrlInputs == {"characterFilter"}

\* The operator toggles an entry's checkbox.
ToggleCheckbox ==
  /\ DialogOperable
  /\ \E i \in 1..Len(selectable) :
       checked' = IF selectable[i] \in checked THEN checked \ {selectable[i]}
                  ELSE checked \cup {selectable[i]}
  /\ toast' = <<>> /\ calls' = <<>>
  /\ answer' = NoAnswer
  /\ UNCHANGED << viewVars, second >>
  /\ UNCHANGED << hostVars, mainVars, changeList, edits, dlgVars, popups, okVars, mvVars,
                  delVars, extOps, saves, histVars >>

\* Host: the form writes the new value into the template entry and saves it.
WriteTemplate(input, v) ==
  IF Has(persisted[SourceName], entryUid)
  THEN [persisted EXCEPT ![SourceName][entryUid] = FormWrite(@, input, v)]
  ELSE persisted

\* The operator changes a field of the template's form: the host writes the value,
\* the listeners registered at line 686 run.
FormInput ==
  /\ DialogOperable
  /\ edits < MaxEdits
  /\ \E input \in SessionInputs : \E v \in FormValues(input) :
       /\ persisted' = WriteTemplate(input, v)
       /\ changeList' = InputListeners(changeList, input, 1)
  /\ edits' = edits + 1
  /\ toast' = <<>> /\ calls' = <<>>
  /\ answer' = NoAnswer
  /\ UNCHANGED << viewVars, second >>
  /\ UNCHANGED << worldNames, formRendered, mainVars, checked, dlgVars, popups, okVars, mvVars,
                  delVars, extOps, saves, histVars >>

\* The operator clicks the kill switch (no modifier): the listener of line 691 adds
\* the key and the host toggles the template's disable flag.
ClickKillSwitch ==
  /\ DialogOperable
  /\ edits < MaxEdits
  /\ persisted' = WriteTemplate("entryKillSwitch", TRUE)
  /\ changeList' = ClickListeners(changeList, "entryKillSwitch", FALSE, 1)
  /\ edits' = edits + 1
  /\ toast' = <<>> /\ calls' = <<>>
  /\ answer' = NoAnswer
  /\ UNCHANGED << viewVars, second >>
  /\ UNCHANGED << worldNames, formRendered, mainVars, checked, dlgVars, popups, okVars, mvVars,
                  delVars, extOps, saves, histVars >>

\* The operator control-clicks an input: lines 692-699, the value is not changed
\* (preventDefault).
CtrlClick ==
  /\ DialogOperable
  /\ edits < MaxEdits
  /\ \E input \in SessionCtrlInputs : changeList' = ClickListeners(changeList, input, TRUE, 1)
  /\ edits' = edits + 1
  /\ toast' = <<>> /\ calls' = <<>>
  /\ answer' = NoAnswer
  /\ UNCHANGED << viewVars, second >>
  /\ UNCHANGED << hostVars, mainVars, checked, dlgVars, popups, okVars, mvVars, delVars,
                  extOps, saves, histVars >>

\* Another part of the host deletes an entry of the book (never the template)
\* after the session has loaded its copy, while the handler waits for the form.
ExternalDelete ==
  /\ extOps < MaxExternal
  /\ pc = "TemplateCreated"
  /\ \E uid \in DOMAIN persisted[SourceName] \ {entryUid} :
       persisted' = [persisted EXCEPT ![SourceName] = Without(@, uid)]
  /\ extOps' = extOps + 1
  /\ toast' = <<>> /\ calls' = <<>>
  /\ answer' = NoAnswer
  /\ UNCHANGED << viewVars, second >>
  /\ UNCHANGED << worldNames, formRendered, mainVars, formVars, dlgVars, popups, okVars,
                  mvVars, delVars, histVars, saves >>

\* dlg.completeAffirmative() / dlg.completeNegative(): the dialog completes when it
\* is still open and onClosing (okToClose) allows it.
Complete(result, ok) == IF outcome = "none" /\ pc = "AwaitingOperatorAction" /\ ok THEN result ELSE outcome

\* NoneSelected with the comparison off by one.
NoneSelectedBelowZero(selectedUids) == Len(selectedUids) < 0

\* Lines 843, 897, 976: selectedUids.length === 0.
NoneSelected(selectedUids) == Len(selectedUids) = 0

\* NoChanges with the negation of deleteTargets lost.
NoChangesNegationLost(list, del) == Len(list) = 0 /\ del

\* Line 847: changeList.length === 0 && !deleteTargets.
NoChanges(list, del) == Len(list) = 0 /\ ~del

\* Affirmed testing only for a dismissed popup.
AffirmedUnlessDismissed(confirmResult) == confirmResult # "CANCELLED"

\* Line 887: confirmResult === POPUP_RESULT.AFFIRMATIVE.
Affirmed(confirmResult) == confirmResult = "AFFIRMATIVE"

\* Lines 941, 987: the truth value of a popup result (NEGATIVE is 0, CANCELLED is null).
Truthy(result) == result \notin {"NEGATIVE", "CANCELLED"}

Top(stack) == IF stack = <<>> THEN "none" ELSE stack[Len(stack)]

Pop(stack) == SubSeq(stack, 1, Len(stack) - 1)

\* ------------------------------------------------- OK button (lines 840-891)

\* Lines 841-885: the guards; the book is loaded (the host answers from its cache
\* of the open book, no other event runs in between), the summary is built from
\* the template and the confirmation is opened.  Reading a field of a missing
\* template throws: the handler ends there.
ClickApply ==
  /\ DialogOperable /\ outcome = "none"
  /\ okPc = "idle"
  /\ LET selectedUids == SelectedUids
         tempBook == persisted[SourceName]
     IN IF NoneSelected(selectedUids)
        THEN /\ toast' = <<Notice("bulkEditNoEntriesSelected", 0)>>
             /\ calls' = <<>>
             /\ UNCHANGED << okVars, popups >>
        ELSE IF NoChanges(changeList, deleteTargets)
        THEN /\ toast' = <<Notice("bulkEditNoChanges", 0)>>
             /\ calls' = <<>>
             /\ UNCHANGED << okVars, popups >>
        ELSE IF ~Has(tempBook, entryUid) /\ Len(changeList) > 0
        THEN /\ toast' = <<>>
             /\ calls' = << Call("loadWorldInfo", -1) >>
             /\ UNCHANGED << okVars, popups >>
        ELSE /\ okPc' = "confirming"
             /\ okSel' = selectedUids
             /\ okSummary' = changeList
             /\ popups' = Append(popups, "applyConfirm")
             /\ toast' = <<>>
             /\ calls' = << Call("loadWorldInfo", -1) >>
  /\ answer' = NoAnswer
  /\ UNCHANGED << viewVars, second >>
  /\ UNCHANGED << hostVars, mainVars, formVars, dlgVars, mvVars, delVars, extOps, saves, histVars >>

\* Lines 887-890: the operator answers the apply confirmation.
ApplyConfirmAnswer ==
  /\ Top(popups) = "applyConfirm"
  /\ \E confirmResult \in {"AFFIRMATIVE", "NEGATIVE", "CANCELLED"} :
       /\ answer' = Answer("applyConfirm", confirmResult)
       /\ IF Affirmed(confirmResult)
          THEN /\ okToClose' = TRUE
               /\ outcome' = Complete("AFFIRMATIVE", TRUE)
               /\ confirmedApply' = TRUE
          ELSE UNCHANGED << okToClose, outcome, confirmedApply >>
  /\ popups' = Pop(popups)
  /\ UNCHANGED << viewVars, second >>
  /\ okPc' = "idle" /\ okSel' = <<>> /\ okSummary' = <<>>
  /\ toast' = <<>> /\ calls' = <<>>
  /\ UNCHANGED << hostVars, mainVars, formVars, deleteTargets, mvVars, delVars, extOps, saves,
                  confirmedDelete >>

\* ------------------------------------------- Delete button (lines 973-992)

ClickDelete ==
  /\ DialogOperable /\ outcome = "none"
  /\ delPc = "idle"
  /\ LET selectedUids == SelectedUids
     IN IF NoneSelected(selectedUids)
        THEN /\ toast' = <<Notice("bulkEditNoEntriesSelected", 0)>>
             /\ UNCHANGED << delVars, popups >>
        ELSE /\ delPc' = "confirming"
             /\ delSel' = selectedUids
             /\ popups' = Append(popups, "deleteConfirm")
             /\ toast' = <<>>
  /\ calls' = <<>>
  /\ answer' = NoAnswer
  /\ UNCHANGED << viewVars, second >>
  /\ UNCHANGED << hostVars, mainVars, formVars, dlgVars, okVars, mvVars, extOps, saves, histVars >>

\* Lines 987-991: the operator answers the delete confirmation.
DeleteConfirmAnswer ==
  /\ Top(popups) = "deleteConfirm"
  /\ \E confirmResult \in {"AFFIRMATIVE", "NEGATIVE", "CANCELLED"} :
       /\ answer' = Answer("deleteConfirm", confirmResult)
       /\ IF Truthy(confirmResult)
          THEN /\ okToClose' = TRUE
               /\ deleteTargets' = TRUE
               /\ outcome' = Complete("AFFIRMATIVE", TRUE)
               /\ confirmedDelete' = {delSel}
          ELSE UNCHANGED << okToClose, deleteTargets, outcome, confirmedDelete >>
  /\ popups' = Pop(popups)
  /\ UNCHANGED << viewVars, second >>
  /\ delPc' = "idle" /\ delSel' = <<>>
  /\ toast' = <<>> /\ calls' = <<>>
  /\ UNCHANGED << hostVars, mainVars, formVars, okVars, mvVars, extOps, saves, confirmedApply >>

\* ------------------------------------------- Cancel button (lines 995-998)

ClickCancel ==
  /\ DialogOperable /\ outcome = "none"
  /\ okToClose' = TRUE
  /\ outcome' = Complete("NEGATIVE", TRUE)
  /\ toast' = <<>> /\ calls' = <<>>
  /\ answer' = NoAnswer
  /\ UNCHANGED << viewVars, second >>
  /\ UNCHANGED << hostVars, mainVars, formVars, deleteTargets, popups, okVars, mvVars, delVars,
                  extOps, saves, histVars >>

\* --------------------------------------- Move/Copy button (lines 894-970)

\* TargetOptions without the comparison against the source name.
TargetOptionsUnfiltered(sourceName) == worldNames

\* Lines 913-921: the options of the destination select.
TargetOptions(sourceName) == {worldName \in worldNames : worldName # sourceName}

\* Host: moveWorldInfoEntry.  False when the names are equal, the entry is missing
\* or the host fails (hostOk); otherwise the entry is copied under a fresh uid of the
\* destination and, with deleteOriginal, removed from the source.
MoveSucceeds(store, sourceName, targetName, uid, hostOk) ==
  hostOk /\ sourceName # targetName /\ Has(store[sourceName], uid)

MoveStore(store, sourceName, targetName, uid, delOrig, hostOk) ==
  IF ~MoveSucceeds(store, sourceName, targetName, uid, hostOk) THEN store
  ELSE LET copied == [store EXCEPT ![targetName] =
                        With(@, FreeUid(@), store[sourceName][uid])]
       IN IF delOrig THEN [copied EXCEPT ![sourceName] = Without(@, uid)] ELSE copied

\* Lines 895-939: the guards, the destination list, the Move/Copy prompt.
ClickMoveCopy ==
  /\ DialogOperable /\ outcome = "none"
  /\ mvPc = "idle"
  /\ LET selectedUids == SelectedUids
     IN IF NoneSelected(selectedUids)
        THEN /\ toast' = <<Notice("bulkEditNoEntriesSelected", 0)>>
             /\ UNCHANGED << mvVars, popups >>
        ELSE IF TargetOptions(SourceName) = {}
        THEN /\ toast' = <<Notice("moveCopyNoTarget", 0)>>
             /\ UNCHANGED << mvVars, popups >>
        ELSE /\ mvPc' = "prompt"
             /\ mvSel' = selectedUids
             /\ mvOptions' = TargetOptions(SourceName)
             /\ popups' = Append(popups, "movePrompt")
             /\ toast' = <<>>
             /\ UNCHANGED << mvButton, mvTarget, deleteOriginal, mvIdx, successCount, errorCount,
                             moveLog >>
  /\ calls' = <<>>
  /\ answer' = NoAnswer
  /\ UNCHANGED << viewVars, second >>
  /\ UNCHANGED << hostVars, mainVars, formVars, dlgVars, okVars, delVars, extOps, saves, histVars >>

\* Lines 930-937: the result each button of the prompt completes it with.
ButtonResult(button) ==
  CASE button = "Move" -> "CUSTOM2"
    [] button = "Copy" -> "CUSTOM1"
    [] OTHER -> "CANCELLED"

\* DeleteOriginalOf comparing against the Copy button's result.
DeleteOriginalOfCopy(moveCopyResult) == moveCopyResult = "CUSTOM1"

\* Line 949.
DeleteOriginalOf(moveCopyResult) == moveCopyResult = "CUSTOM2"

\* Lines 939-952: the operator answers the prompt; Move and Copy start the batch
\* with the destination the select holds.
MovePromptAnswer ==
  /\ Top(popups) = "movePrompt"
  /\ \E button \in {"Cancel", "Move", "Copy"} : \E targetName \in mvOptions :
       LET moveCopyResult == ButtonResult(button)
       IN /\ answer' = Answer("movePrompt", moveCopyResult)
          /\ IF ~Truthy(moveCopyResult)
             THEN /\ mvPc' = "idle" /\ mvSel' = <<>> /\ mvOptions' = {}
                  /\ UNCHANGED << mvButton, mvTarget, deleteOriginal, mvIdx, successCount,
                                  errorCount, moveLog >>
             ELSE /\ mvPc' = "batch"
                  /\ mvButton' = button
                  /\ mvTarget' = targetName
                  /\ deleteOriginal' = DeleteOriginalOf(moveCopyResult)
                  /\ mvIdx' = 1
                  /\ successCount' = 0 /\ errorCount' = 0
                  /\ moveLog' = <<>>
                  /\ UNCHANGED << mvSel, mvOptions >>
  /\ popups' = Pop(popups)
  /\ UNCHANGED << viewVars, second >>
  /\ toast' = <<>> /\ calls' = <<>>
  /\ UNCHANGED << hostVars, mainVars, formVars, dlgVars, okVars, delVars, extOps, saves, histVars >>

\* Lines 962-966: the notices at the end of the batch.
BatchNotices(delOrig, succ, err) ==
  << Notice(IF delOrig THEN "moveCopySuccess:moved" ELSE "moveCopySuccess:copied", succ) >>
  \o (IF err > 0 THEN << Notice("moveCopyError", err) >> ELSE <<>>)

\* LoopDone that also leaves the loop at the first failed call.
LoopDoneOnFailure(idx, n, success) == idx >= n \/ ~success

\* Line 953: the loop ends after the last selected uid, whatever the calls returned.
LoopDone(idx, n, success) == idx >= n

\* Lines 953-969: one moveWorldInfoEntry call returns and is tallied; after the last
\* one the counts are reported and the dialog is completed affirmatively.
MoveStep ==
  /\ mvPc = "batch"
  /\ \E hostOk \in BOOLEAN :
       LET uid == mvSel[mvIdx]
           success == MoveSucceeds(persisted, SourceName, mvTarget, uid, hostOk)
           succ == IF success THEN successCount + 1 ELSE successCount
           err == IF success THEN errorCount ELSE errorCount + 1
       IN /\ persisted' = MoveStore(persisted, SourceName, mvTarget, uid, deleteOriginal, hostOk)
          /\ moveLog' = Append(moveLog, [uid |-> uid, deleteOriginal |-> deleteOriginal,
                                         success |-> success])
          /\ successCount' = succ
          /\ errorCount' = err
          /\ calls' = << Call("moveWorldInfoEntry", uid) >>
          /\ IF ~LoopDone(mvIdx, Len(mvSel), success)
             THEN /\ mvIdx' = mvIdx + 1
                  /\ mvPc' = "batch"
                  /\ toast' = <<>>
                  /\ UNCHANGED << okToClose, outcome >>
             ELSE /\ mvIdx' = mvIdx + 1
                  /\ mvPc' = "finished"
                  /\ toast' = BatchNotices(deleteOriginal, succ, err)
                  /\ okToClose' = TRUE
                  /\ outcome' = Complete("AFFIRMATIVE", TRUE)
  /\ answer' = NoAnswer
  /\ UNCHANGED << viewVars, second >>
  /\ UNCHANGED << worldNames, formRendered, mainVars, formVars, deleteTargets, popups, okVars,
                  mvSel, mvOptions, mvButton, mvTarget, deleteOriginal, delVars, extOps, saves,
                  histVars >>

\* ------------------------------------------------------------ specification

Next ==
  \/ Trigger \/ FormRenders \/ PollForm \/ HookForm
  \/ FinalPhase \/ FinalNotice \/ CancelCleanup \/ CancelDone
  \/ ToggleCheckbox \/ FormInput \/ ClickKillSwitch \/ CtrlClick \/ ExternalDelete
  \/ ClickApply \/ ApplyConfirmAnswer
  \/ ClickDelete \/ DeleteConfirmAnswer
  \/ ClickCancel
  \/ ClickMoveCopy \/ MovePromptAnswer \/ MoveStep

Spec == Init /\ [][Next]_vars

\* The click handler resumes once the promise it awaits is resolved: the dialog's
\* promise after complete...(), the host's save once it was sent.
FairSpec == Spec /\ WF_vars(FinalPhase \/ FinalNotice \/ CancelCleanup \/ CancelDone)

\* The click handler also resumes after each delay of its polling loop and once the
\* form is found; nothing obliges the host to render the form.
PollingFairSpec == FairSpec /\ WF_vars(PollForm) /\ WF_vars(HookForm)

\* ------------------------------------- a session with edits from outside

\* The content another writer gives an entry.
ExternalContent == "ext"

\* Another writer changes the content of an entry of the book and persists it,
\* after the session has loaded the book for its template and its selection list.
ExternalEdit ==
  /\ extOps < MaxExternal
  /\ pc = "TemplateCreated"
  /\ \E uid \in DOMAIN persisted[SourceName] \ {entryUid} :
       persisted' = [persisted EXCEPT ![SourceName][uid].content = ExternalContent]
  /\ extOps' = extOps + 1
  /\ toast' = <<>> /\ calls' = <<>>
  /\ answer' = NoAnswer
  /\ UNCHANGED << viewVars, second >>
  /\ UNCHANGED << worldNames, formRendered, mainVars, formVars, dlgVars, popups, okVars,
                  mvVars, delVars, histVars, saves >>

ExternalEditNext == Next \/ ExternalEdit

ExternalEditSpec == Init /\ [][ExternalEditNext]_vars

\* ------------------------------- the button pressed again during a session

\* Lines 622-640 entered again while the first run waits in its polling loop for
\* the template's form (the dialog is not open yet, the button can be pressed):
\* the same guards, then load, create a template, save.  Nothing in the handler
\* looks for a run in progress.
Retrigger ==
  /\ pc = "TemplateCreated"
  /\ second.pc = "Idle"
  /\ \E enableBulkEditor \in BOOLEAN, worldSelected \in BOOLEAN :
       IF ~enableBulkEditor
       THEN /\ toast' = <<Notice("Bulk Editor is disabled", 0)>>
            /\ calls' = <<>>
            /\ UNCHANGED << persisted, second, saves >>
       ELSE IF ~worldSelected
       THEN /\ toast' = <<Notice("bulkEditNoWorldSelected", 0)>>
            /\ calls' = <<>>
            /\ UNCHANGED << persisted, second, saves >>
       ELSE LET data == persisted[SourceName]
                uid == FreeUid(data)
            IN /\ persisted' = [persisted EXCEPT ![SourceName] = With(data, uid, NewEntry)]
               /\ second' = [pc |-> "TemplateCreated", entryUid |-> uid]
               /\ toast' = <<>>
               /\ calls' = << Call("loadWorldInfo", -1), Call("createWorldInfoEntry", uid),
                              Call("saveWorldInfo", -1) >>
               /\ saves' = saves + 1
  /\ answer' = NoAnswer
  /\ UNCHANGED viewVars
  /\ UNCHANGED << worldNames, formRendered, mainVars, formVars, dlgVars, popups, okVars,
                  mvVars, delVars, extOps, histVars >>

\* Lines 644-647 in the second run: one round of its polling loop.  The run is
\* followed as far as this loop.
RetriggerPoll ==
  /\ second.pc = "TemplateCreated"
  /\ toast' = <<>> /\ calls' = << Call("delay", -1) >>
  /\ answer' = NoAnswer
  /\ UNCHANGED << viewVars, second >>
  /\ UNCHANGED << hostVars, mainVars, formVars, dlgVars, popups, okVars, mvVars, delVars,
                  extOps, saves, histVars >>

RetriggerNext == Next \/ Retrigger \/ RetriggerPoll

RetriggerSpec == Init /\ [][RetriggerNext]_vars

\* ------------------------------------------------- the change tracker alone

\* The inputs and the keys of the hooks.
HookedInputs == {Hooks[i].input : i \in 1..Len(Hooks)}

HookedKeys == {Hooks[i].key : i \in 1..Len(Hooks)}

KeysOfInput(input) == {Hooks[i].key : i \in {j \in 1..Len(Hooks) : Hooks[j].input = input}}

\* A session with its form hooked and its dialog open (lines 648-837 have run).
TrackerInit ==
  /\ persisted = [b \in {SourceName, DestName} |->
                    IF b = SourceName THEN With(InitialBook, FreeUid(InitialBook), NewEntry)
                    ELSE EmptyBook]
  /\ worldNames = {SourceName, DestName}
  /\ pc = "AwaitingOperatorAction"
  /\ formRendered = TRUE
  /\ entryUid = FreeUid(InitialBook)
  /\ second = NoSecondRun
  /\ selectable = SortedUids(DOMAIN InitialBook)
  /\ checked = {}
  /\ changeList = <<>>
  /\ okToClose = FALSE
  /\ deleteTargets = FALSE
  /\ outcome = "none"
  /\ popups = <<>>
  /\ okPc = "idle" /\ okSel = <<>> /\ okSummary = <<>>
  /\ mvPc = "idle" /\ mvSel = <<>> /\ mvOptions = {} /\ mvButton = "" /\ mvTarget = ""
  /\ deleteOriginal = FALSE
  /\ mvIdx = 0 /\ successCount = 0 /\ errorCount = 0 /\ moveLog = <<>>
  /\ delPc = "idle" /\ delSel = <<>>
  /\ finSel = <<>>
  /\ toast = <<>>
  /\ calls = <<>>
  /\ answer = NoAnswer
  /\ edits = 0
  /\ extOps = 0
  /\ saves = 1
  /\ confirmedApply = FALSE
  /\ confirmedDelete = {}
  /\ ViewStart

\* What a form event leaves alone.
trackerFrame ==
  << worldNames, formRendered, mainVars, checked, edits, dlgVars, popups, okVars, mvVars,
     delVars, toast, calls, answer, extOps, saves, histVars, viewVars, second >>

\* A value-change event on one input: the host writes the value, the listeners of
\* line 686 run.  The kill switch changes by click only.
InputEvent(input) ==
  /\ DialogOperable
  /\ input # "entryKillSwitch"
  /\ \E v \in FormValues(input) : persisted' = WriteTemplate(input, v)
  /\ changeList' = InputListeners(changeList, input, 1)
  /\ UNCHANGED trackerFrame

\* A click on one input, with or without the control key: the listeners of lines
\* 689-703 run; only an unmodified click on the kill switch changes a value.
ClickEvent(input, ctrlKey) ==
  /\ DialogOperable
  /\ persisted' = IF input = "entryKillSwitch" /\ ~ctrlKey
                  THEN WriteTemplate("entryKillSwitch", TRUE) ELSE persisted
  /\ changeList' = ClickListeners(changeList, input, ctrlKey, 1)
  /\ UNCHANGED trackerFrame

TrackerNext ==
  \/ \E input \in HookedInputs : InputEvent(input)
  \/ \E input \in HookedInputs, ctrlKey \in BOOLEAN : ClickEvent(input, ctrlKey)

TrackerSpec == TrackerInit /\ [][TrackerNext]_vars

\* --------------------------------------------------------- the classifier alone

\* The longest activation batch.
MaxBatch == 3

bulkVars ==
  << hostVars, mainVars, formVars, dlgVars, popups, okVars, mvVars, delVars, toast, calls,
     answer, extOps, saves, histVars, second >>

\* An activation record as the host hands it over: the fields lines 299-343 read.
Raw(position, depth, role, worldOrder, order, world, comment) ==
  [obj |-> TRUE, uid |-> 0, position |-> position, depth |-> depth, role |-> role,
   worldOrder |-> worldOrder, order |-> order, world |-> world, comment |-> comment]

\* An item of the batch that is not an object (null, a string, a number).
NonRecord == [Raw(NotNum, NotNum, Missing, NotNum, NotNum, Missing, Missing) EXCEPT !.obj = FALSE]

\* Records that differ in position only: absent or not a number, each named
\* position, two positions above the named ones and one below.
PositionShapes ==
  { Raw(p, NotNum, Missing, Num(1), NotNum, "a", Missing) :
      p \in {NotNum} \cup { Num(n) : n \in KnownPositions \cup {8, 9, -1} } }
  \cup { NonRecord }

\* At-depth records: depth absent, 1 or 2; role system, user, or absent; two orders.
DepthShapes ==
  { Raw(Num(4), d, r, Num(o), NotNum, "a", Missing) :
      d \in {NotNum, Num(1), Num(2)}, r \in {"#0", " User", Missing}, o \in {1, 2} }

\* Records of one other position: worldOrder given, order given, or neither (the
\* registry is asked); book "a", "b" or none; label given or defaulted.
OrderShapes ==
  { Raw(Num(1), NotNum, Missing, w[1], w[2], b, c) :
      w \in { << Num(1), NotNum >>, << NotNum, Num(2) >>, << NotNum, NotNum >> },
      b \in {"a", "b"}, c \in {Missing, "a"} }
  \cup { Raw(Num(1), NotNum, Missing, NotNum, NotNum, Missing, "b") }

\* The families of records a batch is drawn from.
Families == {PositionShapes, DepthShapes, OrderShapes}

\* The uid of a record of a batch is its place in it.
WithUids(batch) == [i \in 1..Len(batch) |-> [batch[i] EXCEPT !.uid = i]]

\* The host while the viewer classifies: chat bound to book "b", no character,
\* book "a" enabled globally; the registry knows the order of book "a" only.
ViewerContext ==
  [chatLoreName |-> "b", hasCharacter |-> FALSE, primaryLorebook |-> Missing,
   hasExtra |-> FALSE, extraBooks |-> {}, selected |-> {"a"}]

ViewerRegistry == [n \in {"a"} |-> 2]

ClassifierInit ==
  /\ BulkStart
  /\ worldNames = {SourceName}
  /\ context = ViewerContext
  /\ registry = ViewerRegistry
  /\ \E shapes \in Families, n \in 0..MaxBatch :
       \E batch \in [1..n -> shapes] : activatedEntries = WithUids(batch)
  /\ groups = <<>>
  /\ worldOrderCache = <<>>
  /\ resolved = NoResult
  /\ viewPc = "ready"
  /\ ViewerStart

\* Line 293: processWorldInfoData(activatedEntries), synchronous.
Classify ==
  /\ viewPc = "ready"
  /\ LET out == processWorldInfoData(activatedEntries, context, registry, worldOrderCache)
     IN /\ groups' = out.groups
        /\ worldOrderCache' = out.cache
  /\ viewPc' = "classified"
  /\ UNCHANGED << context, registry, activatedEntries, resolved >>
  /\ UNCHANGED << bulkVars, viewerVars >>

ClassifierNext == Classify

ClassifierSpec == ClassifierInit /\ [][ClassifierNext]_vars

\* ------------------------------------------------------ source resolution alone

\* The books of the resolver's model; "c" is bound nowhere.
BookNames == {"a", "b", "c"}

\* The host contexts: a chat-bound book or none, a character or none, its primary
\* book or none, its record of additional books or none, the global books.
Contexts ==
  [chatLoreName : {Missing, "a", "b"}, hasCharacter : BOOLEAN,
   primaryLorebook : {Missing, "a", "b"}, hasExtra : BOOLEAN,
   extraBooks : SUBSET {"a", "b"}, selected : SUBSET {"a", "b"}]

ResolverInit ==
  /\ BulkStart
  /\ worldNames = {SourceName}
  /\ context \in Contexts
  /\ registry = <<>>
  /\ activatedEntries = <<>>
  /\ groups = <<>>
  /\ worldOrderCache = <<>>
  /\ resolved = NoResult
  /\ viewPc = "ready"
  /\ ViewerStart

\* Line 315: getWISourceKey(entryRaw) for an entry of some book.
Resolve ==
  /\ viewPc = "ready"
  /\ \E worldName \in BookNames :
       resolved' = [world |-> worldName,
                    key |-> getWISourceKey([world |-> worldName], context)]
  /\ viewPc' = "resolved"
  /\ UNCHANGED << context, registry, activatedEntries, groups, worldOrderCache >>
  /\ UNCHANGED << bulkVars, viewerVars >>

ResolverNext == Resolve

ResolverSpec == ResolverInit /\ [][ResolverNext]_vars

\* ------------------------------------------- the classifier over activations

\* Records of one position whose order is their own or is asked of the registry.
LookupShapes ==
  { Raw(Num(1), NotNum, Missing, w, NotNum, b, Missing) :
      w \in {NotNum, Num(1)}, b \in {"a", "b"} }

\* The registries of worlds the host can hold: book "a" listed with order 0 or
\* 2, or not listed; book "b" is never listed.
Registries == UNION { [listed -> {0, 2}] : listed \in SUBSET {"a"} }

ReactivationInit ==
  /\ BulkStart
  /\ worldNames = {SourceName}
  /\ context = ViewerContext
  /\ registry \in Registries
  /\ \E n \in 1..MaxBatch :
       \E batch \in [1..n -> LookupShapes] : activatedEntries = WithUids(batch)
  /\ groups = <<>>
  /\ worldOrderCache = <<>>
  /\ resolved = NoResult
  /\ viewPc = "ready"
  /\ ViewerStart

\* Line 463: the next WORLD_INFO_ACTIVATED event with its records; the host's
\* registry may have changed since the last one.  worldOrderCache is kept.
Activation ==
  /\ viewPc = "classified"
  /\ registry' \in Registries
  /\ \E n \in 1..MaxBatch :
       \E batch \in [1..n -> LookupShapes] : activatedEntries' = WithUids(batch)
  /\ groups' = <<>>
  /\ viewPc' = "ready"
  /\ UNCHANGED << context, worldOrderCache, resolved >>
  /\ UNCHANGED << bulkVars, viewerVars >>

ReactivationNext == Classify \/ Activation

ReactivationSpec == ReactivationInit /\ [][ReactivationNext]_vars

\* ------------------------------------------------ the triggered-entry viewer

\* The longest chat.
MaxChat == 4

\* A chat message: whether the user wrote it, and its extra.worldInfoViewer.
Message(is_user) == [is_user |-> is_user, worldInfoViewer |-> NullSlot]

\* The payload of a WORLD_INFO_ACTIVATED event: not an array, or an array.
NoData == [isArray |-> FALSE, items |-> <<>>]

ArrayOf(items) == [isArray |-> TRUE, items |-> items]

\* The payloads of the model: none, an empty array, one record with uid 1 or
\* uid 2 (their own worldOrder, so no registry lookup).
Payloads ==
  { NoData, ArrayOf(<<>>) }
  \cup { ArrayOf(<< [Raw(Num(0), NotNum, Missing, Num(1), NotNum, "a", Missing)
                       EXCEPT !.uid = uid] >>) : uid \in {1, 2} }

\* The cache limits a saved configuration can hold, and those the settings
\* panel's input can deliver (parseInt: -1 stands for a rejected value).
SavedLimits == {-1, 0, 1, 2}

\* Lines 427-432: the indices of the messages that carry viewer data, ascending.
MessagesWithData(ch) ==
  SelectSeq([i \in 1..Len(ch) |-> i], LAMBDA i : ~ch[i].worldInfoViewer.isNull)

\* Cleanup that removes from the newest end.
cleanupNewestFirst(ch, limit) ==
  IF limit <= 0 THEN ch
  ELSE LET messagesWithData == MessagesWithData(ch)
           toRemove == SubSeq(messagesWithData, limit + 1, Len(messagesWithData))
       IN [i \in 1..Len(ch) |->
             IF \E k \in 1..Len(toRemove) : toRemove[k] = i
             THEN [ch[i] EXCEPT !.worldInfoViewer = NullSlot] ELSE ch[i]]

\* Lines 419-442: the chat after cleanupViewerCache() under a limit.
cleanupViewerCache(ch, limit) ==
  IF limit <= 0 THEN ch
  ELSE LET messagesWithData == MessagesWithData(ch)
           toRemove == IF Len(messagesWithData) > limit
                       THEN SubSeq(messagesWithData, 1, Len(messagesWithData) - limit)
                       ELSE <<>>
       IN [i \in 1..Len(ch) |->
             IF \E k \in 1..Len(toRemove) : toRemove[k] = i
             THEN [ch[i] EXCEPT !.worldInfoViewer = NullSlot] ELSE ch[i]]

\* Lines 445-460: the chat after clearAllViewerCache().
clearAllViewerCache(ch) == [i \in 1..Len(ch) |-> [ch[i] EXCEPT !.worldInfoViewer = NullSlot]]

\* Lines 465-469: what an activation payload puts into lastActivatedWorldInfo.
Classified(data, cache) ==
  IF data.isArray /\ Len(data.items) > 0
  THEN LET out == processWorldInfoData(data.items, context, registry, cache)
       IN [slot |-> Held(out.groups), cache |-> out.cache]
  ELSE [slot |-> NullSlot, cache |-> cache]

\* History: the number of attachments a cleanup removed.
Evicted(before, after) == Len(MessagesWithData(before)) - Len(MessagesWithData(after))

\* What the viewer's handlers leave alone.
viewerFrame ==
  << hostVars, mainVars, formVars, dlgVars, popups, okVars, mvVars, delVars, calls, answer,
     extOps, saves, histVars, context, registry, activatedEntries, groups, resolved, viewPc,
     second >>

ViewerInit ==
  /\ BulkStart
  /\ worldNames = {SourceName}
  /\ context = ViewerContext
  /\ registry = ViewerRegistry
  /\ activatedEntries = <<>>
  /\ groups = <<>>
  /\ worldOrderCache = <<>>
  /\ resolved = NoResult
  /\ viewPc = "ready"
  /\ lastActivatedWorldInfo = NullSlot
  /\ chat = <<>>
  /\ settings \in [enableTriggeredViewer : BOOLEAN, viewerCacheLimit : SavedLimits]
  /\ feed = [latest |-> NullSlot, received |-> 0, evicted |-> 0]

\* Host: a message is added to the chat.
AddMessage(is_user) ==
  /\ Len(chat) < MaxChat
  /\ chat' = Append(chat, Message(is_user))
  /\ feed' = [feed EXCEPT !.evicted = 0]
  /\ toast' = <<>>
  /\ UNCHANGED << lastActivatedWorldInfo, settings, worldOrderCache, viewerFrame >>

\* Lines 463-470: the WORLD_INFO_ACTIVATED handler.
ActivationEvent(data) ==
  /\ LET out == Classified(data, worldOrderCache)
     IN /\ feed' = [latest |-> out.slot, received |-> 0, evicted |-> 0]
        /\ IF ~settings.enableTriggeredViewer
           THEN UNCHANGED << lastActivatedWorldInfo, worldOrderCache >>
           ELSE /\ lastActivatedWorldInfo' = out.slot
                /\ worldOrderCache' = out.cache
  /\ toast' = <<>>
  /\ UNCHANGED << chat, settings, viewerFrame >>

\* Lines 472-482: the MESSAGE_RECEIVED handler; messageId may name no message.
MessageReceived(messageId) ==
  /\ IF /\ settings.enableTriggeredViewer
        /\ ~lastActivatedWorldInfo.isNull
        /\ messageId \in 1..Len(chat)
        /\ ~chat[messageId].is_user
     THEN LET written == [chat EXCEPT ![messageId].worldInfoViewer = lastActivatedWorldInfo]
              cleaned == cleanupViewerCache(written, settings.viewerCacheLimit)
          IN /\ chat' = cleaned
             /\ lastActivatedWorldInfo' = NullSlot
             /\ feed' = [feed EXCEPT !.received = 1,
                                     !.evicted = Evicted(written, cleaned)]
     ELSE /\ feed' = [feed EXCEPT !.received = 1, !.evicted = 0]
          /\ UNCHANGED << chat, lastActivatedWorldInfo >>
  /\ toast' = <<>>
  /\ UNCHANGED << settings, worldOrderCache, viewerFrame >>

\* Lines 1111-1114: the viewer's checkbox in the settings panel.
ToggleViewer ==
  /\ settings' = [settings EXCEPT !.enableTriggeredViewer = ~@]
  /\ feed' = [feed EXCEPT !.evicted = 0]
  /\ toast' = <<>>
  /\ UNCHANGED << lastActivatedWorldInfo, chat, worldOrderCache, viewerFrame >>

\* Lines 1130-1138: the cache-limit input of the settings panel.
SetCacheLimit(value) ==
  /\ IF value >= 0
     THEN /\ settings' = [settings EXCEPT !.viewerCacheLimit = value]
          /\ chat' = cleanupViewerCache(chat, value)
     ELSE UNCHANGED << settings, chat >>
  /\ feed' = [feed EXCEPT !.evicted = Evicted(chat, chat')]
  /\ toast' = <<>>
  /\ UNCHANGED << lastActivatedWorldInfo, worldOrderCache, viewerFrame >>

\* Lines 1140-1147: the clear-cache button of the settings panel.
ClearCache ==
  /\ chat' = clearAllViewerCache(chat)
  /\ toast' = << Notice(IF Len(MessagesWithData(chat)) > 0 THEN "cacheClearedSuccess"
                        ELSE "cacheClearedNone", Len(MessagesWithData(chat))) >>
  /\ feed' = [feed EXCEPT !.evicted = 0]
  /\ UNCHANGED << lastActivatedWorldInfo, settings, worldOrderCache, viewerFrame >>

ViewerNext ==
  \/ \E is_user \in BOOLEAN : AddMessage(is_user)
  \/ \E data \in Payloads : ActivationEvent(data)
  \/ \E messageId \in 1..MaxChat : MessageReceived(messageId)
  \/ ToggleViewer
  \/ \E value \in SavedLimits : SetCacheLimit(value)
  \/ ClearCache

ViewerSpec == ViewerInit /\ [][ViewerNext]_vars

\* ----------------------------------------------------------------- properties

Src == persisted[SourceName]

Dest == persisted[DestName]

SetOf(seq) == {seq[i] : i \in 1..Len(seq)}

\* Everything but the notices, the host calls and the popup answer of the last step.
sessionState ==
  << persisted, worldNames, pc, formRendered, entryUid, selectable, checked,
     changeList, okToClose, deleteTargets, outcome, popups, okPc, okSel, okSummary,
     mvPc, mvSel, mvOptions, mvButton, mvTarget, deleteOriginal, mvIdx, successCount,
     errorCount, moveLog, delPc, delSel, finSel, edits, extOps, saves,
     confirmedApply, confirmedDelete, viewVars >>

\* The step in which the click handler runs its final phase (lines 1016-1056).
FinalPhaseStep == pc = "AwaitingOperatorAction" /\ pc' = "Applying"

\* C1: a field of an entry other than the template changes in the book only if
\* the operator has affirmatively confirmed the apply summary in this session,
\* whichever handler completed the dialog (Apply, Delete or Move/Copy).
C1_ReplayOnlyAfterApplyConfirmation ==
  [][ (\E u \in (DOMAIN Src \cap DOMAIN Src') \ {entryUid} : Src'[u] # Src[u])
        => confirmedApply ]_vars

\* C2: when the click handler has ended, by whatever outcome, the template's uid
\* is absent from the persisted book.
C2_TemplateAbsentAtEnd == pc = "Done" => ~Has(Src, entryUid)

\* A session that Move/Copy completed has ended without the template.
C2_Witness ==
  /\ pc = "Done" /\ outcome = "AFFIRMATIVE"
  /\ mvPc = "finished" /\ ~deleteTargets /\ ~confirmedApply
  /\ ~Has(Src, entryUid)

\* What the replay of dirty set D makes of one target: each field of D takes the
\* template's value, the others keep theirs.
FieldsAfterReplay(old, new, T, D) ==
  /\ new.content = (IF "content" \in D THEN T.content ELSE old.content)
  /\ new.key = (IF "key" \in D THEN T.key ELSE old.key)
  /\ new.constant = (IF "entryStateSelector" \in D THEN T.constant ELSE old.constant)
  /\ new.vectorized = (IF "entryStateSelector" \in D THEN T.vectorized ELSE old.vectorized)
  /\ new.disable = (IF "entryKillSwitch" \in D THEN T.disable ELSE old.disable)
  /\ new.characterFilter =
       (IF "characterFilter" \in D THEN T.characterFilter ELSE old.characterFilter)

\* C3: the final phase of a confirmed Apply with dirty set D gives every selected
\* entry present in the book the template's value in each field of D (disable for
\* entryKillSwitch, constant and vectorized for entryStateSelector, the filter or
\* none for characterFilter), keeps every other field and every non-selected
\* entry, and removes the template and nothing else: without changes from outside
\* the session the uids are those the book had before it.
C3_ApplyEffectAndFrame ==
  [][ (FinalPhaseStep /\ confirmedApply /\ ~deleteTargets) =>
        LET T == Src[entryUid]
            D == SetOf(changeList)
        IN /\ DOMAIN Src' = DOMAIN Src \ {entryUid}
           /\ \A u \in DOMAIN Src' :
                IF u \in checked THEN FieldsAfterReplay(Src[u], Src'[u], T, D)
                ELSE Src'[u] = Src[u]
           /\ Dest' = Dest
           /\ (extOps = 0 /\ moveLog = <<>>) => DOMAIN Src' = DOMAIN InitialBook ]_vars

\* A confirmed Apply of the kill switch and of an emptied character filter has
\* reached both entries.
C3_Witness ==
  /\ pc = "Applying" /\ confirmedApply /\ ~deleteTargets /\ moveLog = <<>>
  /\ SetOf(changeList) = {"entryKillSwitch", "characterFilter"}
  /\ finSel = <<0, 1>>
  /\ Src[0].disable /\ Src[0].content = "a"
  /\ Src[1].characterFilter = NoFilter /\ Src[1].constant

C5_EmptySelectionRefused ==
  [][ ((ClickApply \/ ClickDelete \/ ClickMoveCopy) /\ SelectedUids = <<>>) =>
        /\ toast' = << Notice("bulkEditNoEntriesSelected", 0) >>
        /\ calls' = <<>>
        /\ UNCHANGED sessionState ]_vars

\* The refusal has been shown in a session with a non-empty dirty set.
C5_Witness ==
  /\ toast = << Notice("bulkEditNoEntriesSelected", 0) >>
  /\ checked = {} /\ changeList # <<>>
  /\ pc = "AwaitingOperatorAction" /\ outcome = "none" /\ popups = <<>>

\* C6: the final phase of a confirmed Delete removes from the book exactly the
\* uids of the selection the operator confirmed, and the template, whatever is
\* selected when the final phase runs.
C6_DeleteExactlyConfirmed ==
  [][ (FinalPhaseStep /\ deleteTargets) =>
        \A sel \in confirmedDelete :
          DOMAIN Src \ DOMAIN Src' = (SetOf(sel) \cap DOMAIN Src) \cup {entryUid} ]_vars

\* The calls of the batch so far are for the first selected uids, in order, and
\* the two counters tally their results.
BatchTally ==
  mvPc \in {"batch", "finished"} =>
    /\ Len(moveLog) = mvIdx - 1
    /\ Len(moveLog) <= Len(mvSel)
    /\ \A i \in 1..Len(moveLog) : moveLog[i].uid = mvSel[i]
    /\ successCount = Cardinality({i \in 1..Len(moveLog) : moveLog[i].success})
    /\ errorCount = Cardinality({i \in 1..Len(moveLog) : ~moveLog[i].success})
    /\ mvPc = "finished" =>
         /\ Len(moveLog) = Len(mvSel)
         /\ successCount + errorCount = Len(mvSel)

BatchMessages == {"moveCopySuccess:moved", "moveCopySuccess:copied", "moveCopyError"}

\* A step calls moveWorldInfoEntry exactly when it extends the log by one call,
\* for the next selected uid; the counts are reported in the step that ends the
\* batch and in no other.
BatchStepRule ==
  /\ (moveLog' # moveLog \/ \E i \in 1..Len(calls') : calls'[i].op = "moveWorldInfoEntry") =>
       /\ mvPc = "batch"
       /\ Len(moveLog') = Len(moveLog) + 1
       /\ SubSeq(moveLog', 1, Len(moveLog)) = moveLog
       /\ calls' = << Call("moveWorldInfoEntry", mvSel[Len(moveLog) + 1]) >>
  /\ (mvPc = "batch" /\ mvPc' = "finished") =>
       toast' = << Notice(IF mvButton = "Move" THEN "moveCopySuccess:moved"
                                               ELSE "moveCopySuccess:copied", successCount') >>
                \o (IF errorCount' > 0 THEN << Notice("moveCopyError", errorCount') >> ELSE <<>>)
  /\ (\E i \in 1..Len(toast') : toast'[i].msg \in BatchMessages) =>
       (mvPc = "batch" /\ mvPc' = "finished")
  /\ mvPc = "finished" => mvPc' = "finished"

\* C7: a Move/Copy batch calls the host's move once for every selected uid, in
\* selection order, whether or not earlier calls failed; when it ends the two
\* counts add up to the number of selected uids, successCount is the number of
\* calls that returned success, and the counts are reported once.
C7_BatchCallsAndCounts == [] BatchTally /\ [][BatchStepRule]_vars

\* A batch of two has ended after a failed first call and a successful second.
C7_Witness ==
  /\ mvPc = "finished" /\ mvSel = <<0, 1>>
  /\ Len(moveLog) = 2 /\ ~moveLog[1].success /\ moveLog[2].success
  /\ toast = << Notice("moveCopySuccess:copied", 1), Notice("moveCopyError", 1) >>

\* C8: every move call of a batch carries deleteOriginal = TRUE when the operator
\* pressed Move and FALSE when the operator pressed Copy; a Copy call removes
\* nothing from the source book, and the final phase that follows a Copy removes
\* the template only, so the selected entries are in the source book when the
\* session has ended.
C8_DeleteOriginalIffMove ==
  /\ [] (mvPc \in {"batch", "finished"} =>
           /\ mvButton \in {"Move", "Copy"}
           /\ deleteOriginal = (mvButton = "Move")
           /\ \A i \in 1..Len(moveLog) : moveLog[i].deleteOriginal = (mvButton = "Move"))
  /\ [][ (moveLog' # moveLog /\ mvButton = "Copy") => DOMAIN Src' = DOMAIN Src ]_vars
  /\ [][ (FinalPhaseStep /\ ~deleteTargets) => DOMAIN Src' = DOMAIN Src \ {entryUid} ]_vars
  /\ [] ((pc = "Done" /\ mvPc = "finished" /\ mvButton = "Copy" /\ confirmedDelete = {}
           /\ extOps = 0) => SetOf(mvSel) \subseteq DOMAIN Src)

\* A session that copied both entries has ended with both still in the source
\* book and two copies in the destination.
C8_Witness ==
  /\ pc = "Done" /\ mvPc = "finished" /\ mvButton = "Copy" /\ confirmedDelete = {}
  /\ Len(moveLog) = 2 /\ moveLog[1].success /\ moveLog[2].success
  /\ {0, 1} \subseteq DOMAIN Src
  /\ Cardinality(DOMAIN Dest) = 2

\* C9: the destinations offered never include the source book and the batch's
\* destination is one of them; when there is no other book Move/Copy shows the
\* 'no destination' error and nothing else: no prompt opens and no move is called.
C9_DestinationsExcludeSource ==
  /\ [] /\ SourceName \notin mvOptions
        /\ mvPc = "prompt" => (mvOptions # {} /\ Top(popups) = "movePrompt")
        /\ mvPc \in {"batch", "finished"} => (mvTarget \in mvOptions /\ mvTarget # SourceName)
        /\ worldNames \ {SourceName} = {} => (mvPc = "idle" /\ moveLog = <<>>)
  /\ [][ (ClickMoveCopy /\ SelectedUids # <<>> /\ worldNames \ {SourceName} = {}) =>
           /\ toast' = << Notice("moveCopyNoTarget", 0) >>
           /\ calls' = <<>>
           /\ UNCHANGED sessionState ]_vars

\* The error has been shown with entries selected and no prompt open.
C9_Witness ==
  /\ toast = << Notice("moveCopyNoTarget", 0) >>
  /\ checked # {} /\ worldNames = {SourceName}
  /\ mvPc = "idle" /\ popups = <<>> /\ moveLog = <<>>

\* The template is gone from the book and the handler has saved twice: once
\* after creating the template, once after deleting it.
CleanedUp == ~Has(Src, entryUid) /\ saves = 2

\* The operator declines (No, or dismissal) the apply or the delete confirmation
\* of a dialog that is still open.
DeclineStep ==
  /\ pc = "AwaitingOperatorAction" /\ outcome = "none"
  /\ answer'.popup \in {"applyConfirm", "deleteConfirm"}
  /\ answer'.result \in {"NEGATIVE", "CANCELLED"}

\* The state such a step leaves.
Declined ==
  /\ pc = "AwaitingOperatorAction" /\ outcome = "none"
  /\ answer.popup \in {"applyConfirm", "deleteConfirm"}
  /\ answer.result \in {"NEGATIVE", "CANCELLED"}

\* C10 as stated: after Cancel, and after a declined confirmation, the session
\* comes back to Idle with the template deleted and the book saved.
C10_CancelAndDeclineReturnToIdle ==
  /\ (outcome = "NEGATIVE") ~> (pc = "Done" /\ CleanedUp)
  /\ Declined ~> (pc = "Done" /\ CleanedUp)

\* C10, amended: Cancel completes the dialog negatively and the session then comes
\* back to Idle with the template deleted and the book saved; a declined
\* confirmation changes nothing: the dialog stays open awaiting the operator, the
\* template stays in the book and no save is made.
C10_CancelReturnsToIdleDeclineStaysOpen ==
  /\ [][ClickCancel => outcome' = "NEGATIVE"]_vars
  /\ [] (pc \in {"Cancelling", "Done"} => CleanedUp)
  /\ (outcome = "NEGATIVE") ~> (pc = "Done" /\ CleanedUp)
  /\ [][DeclineStep => (/\ pc' = "AwaitingOperatorAction" /\ outcome' = "none"
                        /\ persisted' = persisted /\ saves' = saves
                        /\ Has(Src', entryUid))]_vars

\* A declined confirmation has left the dialog open, with the template in the
\* book and only the first save made.
C10_Witness ==
  /\ Declined /\ answer = Answer("applyConfirm", "NEGATIVE")
  /\ popups = <<>> /\ mvPc = "idle"
  /\ Has(Src, entryUid) /\ saves = 1 /\ changeList # <<>> /\ checked # {}

\* A move or copy of the batch has taken effect.
MoveEffect == \E i \in 1..Len(moveLog) : moveLog[i].success

\* The step replays the template onto an entry, deletes selected entries, or runs
\* the cancel branch.
ReplayEffectStep == \E u \in (DOMAIN Src \cap DOMAIN Src') \ {entryUid} : Src'[u] # Src[u]

DeleteEffectStep == FinalPhaseStep /\ deleteTargets /\ DOMAIN Src \ DOMAIN Src' # {entryUid}

CancelEffectStep == pc = "AwaitingOperatorAction" /\ pc' = "Cancelling"

\* C11: the click handler never goes from Applying back to awaiting the operator,
\* and a session performs the effects of one outcome only: replay, deletion and
\* the cancel branch happen only when no entry was moved or copied, and no entry
\* is moved or copied once the handler has left the dialog.
C11_OneTerminalOutcome ==
  /\ [][pc = "Applying" => pc' # "AwaitingOperatorAction"]_vars
  /\ [][(ReplayEffectStep \/ DeleteEffectStep \/ CancelEffectStep) => ~MoveEffect]_vars
  /\ [][(MoveEffect' /\ moveLog' # moveLog /\ moveLog'[Len(moveLog')].success)
          => pc = "AwaitingOperatorAction"]_vars

Dirty(list) == SetOf(list)

\* C12: every click on the kill switch leaves its key in the dirty set, and no
\* click of any kind, control-click included, takes the key out of the dirty set.
C12_KillSwitchNeverRemoved ==
  /\ [][(\E ctrlKey \in BOOLEAN : ClickEvent("entryKillSwitch", ctrlKey))
          => "entryKillSwitch" \in Dirty(changeList')]_vars
  /\ [][(\E input \in HookedInputs, ctrlKey \in BOOLEAN : ClickEvent(input, ctrlKey))
          => ("entryKillSwitch" \in Dirty(changeList) => "entryKillSwitch" \in Dirty(changeList'))]_vars

\* C13: whatever value-change events and clicks the hooked inputs have received,
\* changeList holds each key at most once; adding a key it holds and removing a
\* key it does not hold leave it as it is.
C13_DirtyKeysUnique ==
  /\ \A i, j \in 1..Len(changeList) : i # j => changeList[i] # changeList[j]
  /\ \A key \in HookedKeys :
       /\ Includes(changeList, key) => addChange(changeList, key) = changeList
       /\ ~Includes(changeList, key) => removeChange(changeList, key) = changeList

\* Every hooked key is dirty, those hooked twice or through two inputs included.
C13_Witness ==
  /\ Dirty(changeList) = HookedKeys /\ Len(changeList) = Cardinality(HookedKeys)
  /\ Src[entryUid].key # <<>> /\ Src[entryUid].characterFilter # NoFilter

\* C14: a control-click on a hooked input other than the kill switch flips the
\* dirty flag of that input's key and nothing else: the other keys keep their
\* flags and their order, the template's values and the rest of the session are
\* unchanged.
C14_CtrlClickFlipsOneFlag ==
  [][ \A input \in HookedInputs \ {"entryKillSwitch"} :
        ClickEvent(input, TRUE) =>
          \A key \in KeysOfInput(input) :
            /\ (key \in Dirty(changeList')) = (key \notin Dirty(changeList))
            /\ Dirty(changeList') \ {key} = Dirty(changeList) \ {key}
            /\ removeChange(changeList', key) = removeChange(changeList, key)
            /\ persisted' = persisted
            /\ UNCHANGED trackerFrame ]_vars

\* The key field is dirty although the template still has its initial values:
\* only a control-click does that.
C14_Witness ==
  /\ changeList = << "key" >>
  /\ Src[entryUid] = NewEntry

\* The places of the output: group g, entry k of it.
Places == UNION { { << g, k >> : k \in 1..Len(groups[g].entries) } : g \in 1..Len(groups) }

\* The places that hold the record with uid i.
PlacesOf(i) == { pl \in Places : groups[pl[1]].entries[pl[2]].uid = i }

\* C15: once a batch is classified, each item of it that is an object is in the
\* output exactly once, in the group whose position is the record's numeric
\* position (0 when the position is absent or not a number, the number itself
\* also outside 0..7); an item that is not an object is nowhere in the output;
\* the output holds as many entries as the batch has objects; no group is empty.
C15_PartitionComplete ==
  viewPc = "classified" =>
    /\ \A i \in 1..Len(activatedEntries) :
         LET entryRaw == activatedEntries[i]
             expected == IF entryRaw.position.t = "number" THEN entryRaw.position.v ELSE 0
         IN IF entryRaw.obj
            THEN /\ Cardinality(PlacesOf(i)) = 1
                 /\ \A pl \in PlacesOf(i) : groups[pl[1]].position = expected
            ELSE PlacesOf(i) = {}
    /\ Cardinality(Places) = Cardinality({ i \in 1..Len(activatedEntries) : activatedEntries[i].obj })
    /\ \A g \in 1..Len(groups) : Len(groups[g].entries) > 0

\* A classified batch with an item that is not an object, a record without a
\* numeric position and a record whose position is above the named ones.
C15_Witness ==
  /\ viewPc = "classified"
  /\ \E i, j, k \in 1..Len(activatedEntries) :
       /\ ~activatedEntries[i].obj
       /\ activatedEntries[j].obj /\ activatedEntries[j].position = NotNum
       /\ activatedEntries[k].obj /\ activatedEntries[k].position = Num(9)
  /\ \E g \in 1..Len(groups) : groups[g].position = 9

\* The precedence of the named positions: before and after the character
\* definition, before and after the examples, before and after the author's
\* note, at depth, outlet.
Precedence == << 0, 1, 5, 6, 2, 3, 4, 7 >>

PrecedenceRank(position) == CHOOSE i \in 1..Len(Precedence) : Precedence[i] = position

Recognized(position) == \E i \in 1..Len(Precedence) : Precedence[i] = position

\* C16: once a batch is classified, of any two output groups with named
\* positions the one earlier in the output is the one earlier in the precedence
\* 0, 1, 5, 6, 2, 3, 4, 7, in whatever order the records arrived.
C16_NamedGroupsInPrecedence ==
  viewPc = "classified" =>
    \A g, h \in 1..Len(groups) :
      g < h /\ Recognized(groups[g].position) /\ Recognized(groups[h].position)
        => PrecedenceRank(groups[g].position) < PrecedenceRank(groups[h].position)

\* Records of positions 4, 2 and 5 arrived in that order and came out as the
\* groups 5, 2, 4.
C16_Witness ==
  /\ viewPc = "classified"
  /\ Len(activatedEntries) = 3
  /\ activatedEntries[1].position = Num(4)
  /\ activatedEntries[2].position = Num(2)
  /\ activatedEntries[3].position = Num(5)
  /\ activatedEntries[1].depth = NotNum
  /\ Len(groups) = 3
  /\ groups[1].position = 5 /\ groups[2].position = 2 /\ groups[3].position = 4

\* C17: once a batch is classified, every group of a position outside 0..7 comes
\* after every group of a named position, and of two groups of positions outside
\* 0..7 the earlier one has the smaller position.
C17_UnknownGroupsAscending ==
  viewPc = "classified" =>
    \A g, h \in 1..Len(groups) :
      /\ ~Recognized(groups[g].position) /\ Recognized(groups[h].position) => h < g
      /\ g < h /\ ~Recognized(groups[g].position) /\ ~Recognized(groups[h].position)
           => groups[g].position < groups[h].position

\* The entries of the output's group of a position, none when it has no group.
EntriesAt(position) ==
  IF \E g \in 1..Len(groups) : groups[g].position = position
  THEN groups[CHOOSE g \in 1..Len(groups) : groups[g].position = position].entries
  ELSE <<>>

\* depth x is before depth y in non-increasing order with a missing depth last.
DepthBefore(x, y) == x.t = "number" /\ (y.t # "number" \/ x.v > y.v)

\* C18: once a batch is classified, of two consecutive entries of the at-depth
\* group (position 4) the first has the greater depth, a missing depth being below
\* every present one; or they have the same depth and the first has the greater
\* source-type priority (assistant 3, user 2, system 1); or the same depth and
\* priority and the first has the smaller or an equal worldOrder.
C18_AtDepthOrder ==
  viewPc = "classified" =>
    LET entries == EntriesAt(4)
    IN \A k \in 1..(Len(entries) - 1) :
         LET a == entries[k]
             b == entries[k + 1]
         IN \/ DepthBefore(a.depth, b.depth)
            \/ /\ a.depth = b.depth
               /\ \/ a.sourceType > b.sourceType
                  \/ /\ a.sourceType = b.sourceType
                     /\ MinusSign(a.worldOrder, b.worldOrder) <= 0

\* At-depth records arrived as: no depth; depth 1 from the user; depth 1 from the
\* assistant; and came out as the third, the second, the first.
C18_Witness ==
  /\ viewPc = "classified"
  /\ Len(activatedEntries) = 3
  /\ \A i \in 1..3 : activatedEntries[i].position = Num(4)
  /\ activatedEntries[1].depth = NotNum
  /\ activatedEntries[2].depth = Num(1) /\ activatedEntries[2].role = " User"
  /\ activatedEntries[3].depth = Num(1) /\ activatedEntries[3].role = Missing
  /\ Len(EntriesAt(4)) = 3
  /\ EntriesAt(4)[1].uid = 3 /\ EntriesAt(4)[1].sourceType = 3
  /\ EntriesAt(4)[2].uid = 2 /\ EntriesAt(4)[2].sourceType = 2
  /\ EntriesAt(4)[3].uid = 1

\* The worldOrder lines 318-321 give a record: its worldOrder, else its order,
\* else the registry's order of its book, else above every order.
ExpectedWorldOrder(entryRaw) ==
  IF entryRaw.worldOrder.t = "number" THEN Fin(entryRaw.worldOrder.v)
  ELSE IF entryRaw.order.t = "number" THEN Fin(entryRaw.order.v)
  ELSE IF entryRaw.world \in DOMAIN registry THEN Fin(registry[entryRaw.world])
  ELSE MaxSafeInteger

\* C19: once a batch is classified, in every group of a position other than 4
\* each entry carries the worldOrder resolved from its record (unknown above
\* every known one), and of two consecutive entries the first has the smaller
\* worldOrder; or the same worldOrder and the earlier book name; or the same
\* worldOrder and book name and the earlier or an equal label.
C19_OtherGroupsOrder ==
  viewPc = "classified" =>
    \A g \in 1..Len(groups) :
      groups[g].position # 4 =>
        LET entries == groups[g].entries
        IN /\ \A k \in 1..Len(entries) :
                entries[k].worldOrder = ExpectedWorldOrder(activatedEntries[entries[k].uid])
           /\ \A k \in 1..(Len(entries) - 1) :
                LET a == entries[k]
                    b == entries[k + 1]
                IN \/ MinusSign(a.worldOrder, b.worldOrder) < 0
                   \/ /\ a.worldOrder = b.worldOrder
                      /\ \/ LocaleCompare(a.worldName, b.worldName) < 0
                         \/ /\ LocaleCompare(a.worldName, b.worldName) = 0
                            /\ LocaleCompare(a.entryName, b.entryName) <= 0

\* Records of one group arrived as: book "b" with no order anywhere; book "b"
\* with order 2; book "a" whose order 2 is the registry's; and came out as the
\* third, the second, the first.
C19_Witness ==
  /\ viewPc = "classified"
  /\ Len(activatedEntries) = 3
  /\ \A i \in 1..3 : activatedEntries[i].position = Num(1)
  /\ activatedEntries[1].world = "b" /\ activatedEntries[1].worldOrder = NotNum
  /\ activatedEntries[1].order = NotNum
  /\ activatedEntries[2].world = "b" /\ activatedEntries[2].order = Num(2)
  /\ activatedEntries[3].world = "a" /\ activatedEntries[3].worldOrder = NotNum
  /\ activatedEntries[3].order = NotNum
  /\ Len(EntriesAt(1)) = 3
  /\ EntriesAt(1)[1].uid = 3 /\ EntriesAt(1)[1].worldOrder = Fin(2)
  /\ EntriesAt(1)[2].uid = 2
  /\ EntriesAt(1)[3].uid = 1 /\ EntriesAt(1)[3].worldOrder = MaxSafeInteger

\* The tiers of source resolution in their precedence, each with what it takes
\* for the resolved book to match it in the present context.
Tiers ==
  << [key |-> "chat",
      match |-> context.chatLoreName # Missing /\ resolved.world = context.chatLoreName],
     [key |-> "characterPrimary",
      match |-> context.hasCharacter /\ resolved.world = context.primaryLorebook],
     [key |-> "characterAdditional",
      match |-> context.hasCharacter /\ context.hasExtra
                /\ resolved.world \in context.extraBooks],
     [key |-> "global",
      match |-> resolved.world \in context.selected] >>

\* C20: the source resolved for a book is the key of the first tier it matches
\* in the order chat, character primary, character additional, global, and null
\* when it matches none; a tier whose context is absent matches nothing and the
\* later tiers still count.
C20_FirstMatchingTier ==
  viewPc = "resolved" =>
    IF \E i \in 1..Len(Tiers) : Tiers[i].match
    THEN \E i \in 1..Len(Tiers) :
           /\ Tiers[i].match
           /\ \A j \in 1..(i - 1) : ~Tiers[j].match
           /\ resolved.key = Tiers[i].key
    ELSE resolved.key = Null

\* A book that is the chat-bound book, the character's primary book and a global
\* book resolved to chat.
C20_Witness ==
  /\ viewPc = "resolved"
  /\ context.chatLoreName = resolved.world
  /\ context.hasCharacter /\ context.primaryLorebook = resolved.world
  /\ resolved.world \in context.selected
  /\ resolved.key = "chat"

\* What the classifier returns for the present records and the present host
\* tables when nothing was classified before (worldOrderCache as created).
FreshGroups == processWorldInfoData(activatedEntries, context, registry, <<>>).groups

\* C21: the groups an invocation returns are those the present records and the
\* present host tables (context and registry) determine: the same as an invocation
\* with these records and tables returns when none came before it, whatever was
\* classified earlier and whatever the registry held then.
C21_OutputFromInputAndSnapshot ==
  viewPc = "classified" => groups = FreshGroups

\* The messages whose attachment a step replaces by a value that is not null.
WrittenTo == { i \in 1..Len(chat) : /\ chat'[i].worldInfoViewer # chat[i].worldInfoViewer
                                     /\ ~chat'[i].worldInfoViewer.isNull }

\* C22: the handoff is one slot.  An activation event the enabled viewer handles
\* leaves in the slot what that event's records classify to, whatever the slot
\* held, and null when the event carries no records; and whenever an attachment
\* is written to a message it is what the most recent activation event
\* classifies to.
C22_SingleSlotLatestActivation ==
  [][ /\ (settings.enableTriggeredViewer /\ \E data \in Payloads : ActivationEvent(data))
           => lastActivatedWorldInfo' = feed'.latest
      /\ \A i \in WrittenTo : chat'[i].worldInfoViewer = feed.latest ]_vars

\* A message the viewer may attach to: it exists and the user did not write it.
Qualifies(messageId) == messageId \in 1..Len(chat) /\ ~chat[messageId].is_user

\* C23: a received-message event the enabled viewer handles leaves the slot
\* empty; it writes an attachment to no message but its own, and to that one
\* only when it qualifies; and an attachment is written only by the first
\* received-message event after the activation.
C23_ConsumedByNextReceived ==
  [][ \A messageId \in 1..MaxChat :
        (settings.enableTriggeredViewer /\ MessageReceived(messageId))
          => /\ lastActivatedWorldInfo'.isNull
             /\ WrittenTo \subseteq {messageId}
             /\ WrittenTo # {} => Qualifies(messageId) /\ feed.received = 0 ]_vars

\* The messages of a chat that carry an attachment.
WithData(ch) == { i \in 1..Len(ch) : ~ch[i].worldInfoViewer.isNull }

\* The messages that keep their attachment under limit L: all of them when
\* L <= 0, else those with fewer than L attachments above them.
Kept(ch, L) ==
  IF L <= 0 THEN WithData(ch)
  ELSE { i \in WithData(ch) : Cardinality({ j \in WithData(ch) : j > i }) < L }

\* after is ch with the attachments outside Kept removed and nothing else changed.
CleanedTo(ch, L, after) ==
  /\ Len(after) = Len(ch)
  /\ \A i \in 1..Len(ch) :
       /\ after[i].is_user = ch[i].is_user
       /\ after[i].worldInfoViewer = IF i \in Kept(ch, L) THEN ch[i].worldInfoViewer ELSE NullSlot

\* C24: a cleanup under limit L > 0 leaves their attachments to exactly the L
\* highest-indexed messages that had one (to all when there were at most L) and
\* changes nothing else in the chat; under L <= 0 it removes nothing.  This holds
\* of the cleanup the cache-limit input runs and of the one a received-message
\* event runs after writing its attachment, after which, when L > 0, at most L
\* messages carry an attachment.
C24_CleanupKeepsNewest ==
  [][ /\ \A value \in SavedLimits :
           (value >= 0 /\ settings'.viewerCacheLimit = value /\ SetCacheLimit(value))
             => CleanedTo(chat, value, chat')
      /\ \A messageId \in 1..MaxChat :
           (~lastActivatedWorldInfo.isNull /\ lastActivatedWorldInfo'.isNull
              /\ MessageReceived(messageId))
             => /\ CleanedTo([chat EXCEPT ![messageId].worldInfoViewer = lastActivatedWorldInfo],
                             settings.viewerCacheLimit, chat')
                /\ settings.viewerCacheLimit > 0
                     => Cardinality(WithData(chat')) <= settings.viewerCacheLimit ]_vars

\* Four messages carried attachments; a cleanup under limit 2 removed two, and
\* the two newest messages keep theirs.
C24_Witness ==
  /\ Len(chat) = 4
  /\ settings.viewerCacheLimit = 2
  /\ feed.evicted = 2
  /\ WithData(chat) = {3, 4}

\* A step in which the run of a button handler ends and leaves the dialog open:
\* a guard refused the click, or the operator declined the confirmation or
\* dismissed the Move/Copy prompt.
ButtonRunEnds ==
  /\ outcome' = "none"
  /\ \/ ClickApply /\ okPc' = "idle"
     \/ ClickDelete /\ delPc' = "idle"
     \/ ClickMoveCopy /\ mvPc' = "idle"
     \/ ApplyConfirmAnswer
     \/ DeleteConfirmAnswer
     \/ MovePromptAnswer /\ mvPc' = "idle"

\* C25: no run of a button handler (Apply, Delete, Move/Copy) ends without a
\* notice to the operator and without having changed a book, a declined
\* confirmation and a dismissed Move/Copy prompt included.
C25_NoSilentEnd ==
  [][ ButtonRunEnds => (toast' # <<>> \/ persisted' # persisted) ]_vars

\* C26: a session that has created and saved its template does not wait for the
\* form for ever: it gets past the polling loop, to the hooked form or to an
\* explicit failure, also when the host never renders the form.
C26_FormWaitEnds == (pc = "TemplateCreated") ~> (pc # "TemplateCreated")


\* The positions of the save requests in a sequence of host calls.
SavesIn(cs) == { i \in 1..Len(cs) : cs[i].op = "saveWorldInfo" }

\* The handler resumes after the dialog and runs its apply, delete or cancel branch.
TerminalStep == pc = "AwaitingOperatorAction" /\ (FinalPhase \/ CancelCleanup)

\* C27: in the terminal phase the session sends exactly one save to the host, as
\* its last host call: after every deletion of a target and directly after the
\* deletion of the template; the steps that follow send none.
C27_OneSaveAtTheEnd ==
  [][ /\ TerminalStep =>
           /\ saves' = saves + 1
           /\ SavesIn(calls') = { Len(calls') }
           /\ calls'[Len(calls') - 1] = Call("deleteWorldInfoEntry", entryUid)
           /\ outcome = "AFFIRMATIVE" /\ deleteTargets =>
                \A u \in checked \ {entryUid} :
                  \E i \in 2..(Len(calls') - 2) : calls'[i] = Call("deleteWorldInfoEntry", u)
      /\ (pc \in {"Applying", "Cancelling"} /\ (FinalNotice \/ CancelDone)) =>
           saves' = saves /\ SavesIn(calls') = {} ]_vars

C27_Witness ==
  /\ pc = "Applying"
  /\ deleteTargets
  /\ Len(finSel) >= 2
  /\ Len(calls) = Len(finSel) + 3


\* The selected uids the book loaded for the final phase does not hold.
MissingSelected == { u \in SetOf(SelectedUids) : ~Has(Src, u) }

\* C28: when the replay of a confirmed Apply meets selected uids that the freshly
\* loaded book does not hold, it skips them: no entry appears under such a uid,
\* every other selected entry still takes the template's dirty fields, the
\* template is deleted and the book is saved once.
C28_MissingTargetSkipped ==
  [][ (FinalPhaseStep /\ ~deleteTargets /\ MissingSelected # {}) =>
        /\ \A u \in MissingSelected : ~Has(Src', u)
        /\ \A u \in SetOf(SelectedUids) \ MissingSelected :
             /\ Has(Src', u)
             /\ FieldsAfterReplay(Src[u], Src'[u], Src[entryUid], SetOf(changeList))
        /\ ~Has(Src', entryUid)
        /\ DOMAIN Src' = DOMAIN Src \ {entryUid}
        /\ saves' = saves + 1
        /\ calls'[Len(calls')] = Call("saveWorldInfo", -1) ]_vars

\* Entry 1 was deleted from outside after the list was built; both entries were
\* selected and the kill switch applied: entry 0 has taken it, entry 1 is absent.
C28_Witness ==
  /\ pc = "Applying" /\ ~deleteTargets /\ extOps = 1
  /\ finSel = <<0, 1>>
  /\ "entryKillSwitch" \in SetOf(changeList)
  /\ ~Has(Src, 1)
  /\ Has(Src, 0) /\ Src[0].disable
  /\ ~Has(Src, entryUid)


\* The dirty key whose replay writes field f of a target (switch at 1028-1050).
DirtyKeyOf(f) ==
  CASE f \in {"constant", "vectorized"} -> "entryStateSelector"
    [] f = "disable" -> "entryKillSwitch"
    [] OTHER -> f

\* The entries the terminal step about to run works on.
TerminalTargets == IF outcome = "AFFIRMATIVE" THEN SetOf(SelectedUids) ELSE {}

\* The steps that change the book or prepare its change: template creation, the
\* lookup for the confirmation summary, the final phase and the cancel cleanup.
MutatingPhaseStep ==
  \/ pc = "Idle" /\ pc' = "TemplateCreated"
  \/ okPc = "idle" /\ okPc' = "confirming"
  \/ pc = "AwaitingOperatorAction" /\ pc' \in {"Applying", "Cancelling"}

\* C29: each mutating phase begins with a load of the book from the host, and
\* the book the terminal phase saves is made from the book as persisted at that
\* load, not from the copy of the session's start: it holds no uid the persisted
\* book had lost, every entry that is not a target is saved as persisted, and a
\* target of an apply keeps the persisted value of every field that is not dirty.
C29_FreshLoadEachPhase ==
  [][ /\ MutatingPhaseStep => (calls' # <<>> /\ Head(calls') = Call("loadWorldInfo", -1))
      /\ (pc = "AwaitingOperatorAction" /\ pc' \in {"Applying", "Cancelling"}) =>
           /\ DOMAIN Src' \subseteq DOMAIN Src
           /\ \A u \in DOMAIN Src \ {entryUid} :
                IF u \notin TerminalTargets
                THEN Has(Src', u) /\ Src'[u] = Src[u]
                ELSE deleteTargets \/
                     /\ Has(Src', u)
                     /\ \A f \in DOMAIN Src[u] :
                          DirtyKeyOf(f) \notin SetOf(changeList) => Src'[u][f] = Src[u][f] ]_vars

\* Entry 0 was given a new content from outside after the session began; the
\* operator then applied the kill switch to it: the saved entry has the outside
\* content and the template's flag.
C29_Witness ==
  /\ pc = "Applying" /\ ~deleteTargets /\ extOps = 1
  /\ finSel = <<0>>
  /\ SetOf(changeList) = {"entryKillSwitch"}
  /\ Has(Src, 0) /\ Src[0].content = ExternalContent /\ Src[0].disable
  /\ Has(Src, 1) /\ Src[1] = InitialBook[1]


\* Every uid the session holds as offered, checked or taken as the target of an
\* operation.
TargetUids ==
  SetOf(selectable) \cup checked \cup SetOf(okSel) \cup SetOf(mvSel) \cup SetOf(delSel)
    \cup SetOf(finSel) \cup { moveLog[i].uid : i \in 1..Len(moveLog) }

\* C30: from the creation of the template on, its uid is not among the uids
\* offered for selection, checked, confirmed, moved, copied or replayed, and the
\* only deletion of it the session asks of the host is the cleanup that directly
\* precedes the save.
C30_TemplateNeverTarget ==
  pc # "Idle" =>
    /\ entryUid \notin TargetUids
    /\ \A i \in 1..Len(calls) :
         (calls[i].uid = entryUid /\ calls[i].op # "createWorldInfoEntry")
           => /\ calls[i].op = "deleteWorldInfoEntry"
              /\ i = Len(calls) - 1
              /\ calls[Len(calls)].op = "saveWorldInfo"

\* Every listed entry was selected and deleted: the targets were all the entries of
\* the book but the template.
C30_Witness ==
  /\ pc = "Applying" /\ deleteTargets
  /\ SetOf(finSel) = DOMAIN InitialBook
  /\ entryUid \notin DOMAIN InitialBook
  /\ Len(calls) = Len(finSel) + 3


\* The templates of the runs of the click handler that the book holds.
TemplatesInBook ==
  { u \in DOMAIN Src : \/ pc # "Idle" /\ u = entryUid
                       \/ second.pc # "Idle" /\ u = second.entryUid }

\* C31: one session at a time per book: the button pressed again before the
\* session in progress has cleaned up creates no second template, so the
\* persisted book never holds two templates.
C31_OneTemplatePerBook == Cardinality(TemplatesInBook) <= 1

====
